---------------------------- MODULE Spec2Model ----------------------------
(***************************************************************************)
(* Math Mentor AI backend: the request pipeline of src/run.py (completion- *)
(* backed parser, solver and verifier) and the agent functions of          *)
(* src/main.py (local parser and verifier, two-attempt solver).            *)
(*                                                                         *)
(* Texts are TLA+ strings, read character by character with Len and        *)
(* SubSeq.  Python values are tagged records:                              *)
(*   [t |-> "str",  s |-> string]      [t |-> "num", n |-> hundredths,     *)
(*   [t |-> "bool", b |-> BOOLEAN]                   isint |-> BOOLEAN]    *)
(*   [t |-> "null"]                    [t |-> "list", e |-> sequence]      *)
(*   [t |-> "dict", m |-> sequence of [k |-> key string, v |-> value]]     *)
(* Numbers are kept in hundredths (0.85 is 85).                            *)
(***************************************************************************)
EXTENDS Integers, Sequences, FiniteSets, TLC

(***************************************************************************)
(* Python str operations.                                                  *)
(***************************************************************************)
\* body applied to a value that is computed once and named, as a local
\* variable of the source is
With(value, body(_)) == body(value)

Min(a, b) == IF a < b THEN a ELSE b

Max(a, b) == IF a > b THEN a ELSE b

Char(s, i) == IF i >= 1 /\ i <= Len(s) THEN SubSeq(s, i, i) ELSE ""

\* s[i:j] with 1-based inclusive bounds, empty when j < i
Slice(s, i, j) == IF j < i THEN "" ELSE SubSeq(s, Max(i, 1), Min(j, Len(s)))

\* s[:n]
Prefix(s, n) == Slice(s, 1, n)

\* sub in s
str_contains(sub, s) ==
    \E i \in 1..(Len(s) - Len(sub) + 1) : Slice(s, i, i + Len(sub) - 1) = sub

\* s.startswith(p)
startswith(s, p) == Len(p) <= Len(s) /\ Prefix(s, Len(p)) = p

\* s.find(sub) from position from (1-based), 0 when absent
FindFrom(s, sub, from) ==
    With({i \in from..(Len(s) - Len(sub) + 1) : Slice(s, i, i + Len(sub) - 1) = sub},
         LAMBDA hits :
             IF hits = {} THEN 0 ELSE CHOOSE i \in hits : \A j \in hits : i <= j)

\* s.rfind(sub), 0 when absent
RFind(s, sub) ==
    With({i \in 1..(Len(s) - Len(sub) + 1) : Slice(s, i, i + Len(sub) - 1) = sub},
         LAMBDA hits :
             IF hits = {} THEN 0 ELSE CHOOSE i \in hits : \A j \in hits : i >= j)

IsSpace(c) == c \in {" ", "\n", "\t", "\r"}

IsDigit(c) == c \in {"0", "1", "2", "3", "4", "5", "6", "7", "8", "9"}

DigitVal(c) ==
    CASE c = "0" -> 0 [] c = "1" -> 1 [] c = "2" -> 2 [] c = "3" -> 3
      [] c = "4" -> 4 [] c = "5" -> 5 [] c = "6" -> 6 [] c = "7" -> 7
      [] c = "8" -> 8 [] c = "9" -> 9 [] OTHER -> 0

\* first position >= i that holds no whitespace (Len(s) + 1 when none)
SkipSpace(s, i) ==
    With({j \in i..Len(s) : ~IsSpace(Char(s, j))},
         LAMBDA stops :
             IF stops = {} THEN Max(i, Len(s) + 1)
             ELSE CHOOSE j \in stops : \A k \in stops : j <= k)

\* first position >= i that holds one of chars (beyond the end when none)
FirstOf(s, i, chars) ==
    With({j \in i..Len(s) : Char(s, j) \in chars},
         LAMBDA stops :
             IF stops = {} THEN Max(i, Len(s) + 1)
             ELSE CHOOSE j \in stops : \A k \in stops : j <= k)

\* s.strip()
strip(s) ==
    With({j \in 1..Len(s) : ~IsSpace(Char(s, j))},
         LAMBDA keep :
             IF keep = {} THEN ""
             ELSE SubSeq(s, CHOOSE j \in keep : \A k \in keep : j <= k,
                            CHOOSE j \in keep : \A k \in keep : j >= k))

LowerChar(c) ==
    CASE c = "A" -> "a" [] c = "B" -> "b" [] c = "C" -> "c" [] c = "D" -> "d"
      [] c = "E" -> "e" [] c = "F" -> "f" [] c = "G" -> "g" [] c = "H" -> "h"
      [] c = "I" -> "i" [] c = "J" -> "j" [] c = "K" -> "k" [] c = "L" -> "l"
      [] c = "M" -> "m" [] c = "N" -> "n" [] c = "O" -> "o" [] c = "P" -> "p"
      [] c = "Q" -> "q" [] c = "R" -> "r" [] c = "S" -> "s" [] c = "T" -> "t"
      [] c = "U" -> "u" [] c = "V" -> "v" [] c = "W" -> "w" [] c = "X" -> "x"
      [] c = "Y" -> "y" [] c = "Z" -> "z" [] OTHER -> c

RECURSIVE lower(_)
\* s.lower()
lower(s) ==
    IF Len(s) <= 1 THEN LowerChar(s)
    ELSE lower(Slice(s, 1, Len(s) \div 2))
             \o lower(Slice(s, Len(s) \div 2 + 1, Len(s)))

(***************************************************************************)
(* Python values.                                                          *)
(***************************************************************************)
Str(s) == [t |-> "str", s |-> s]

Num(n) == [t |-> "num", n |-> n, isint |-> TRUE]

Float(n) == [t |-> "num", n |-> n, isint |-> FALSE]

\* float('nan'), float('inf'), float('-inf')
FloatSpecial(name) == [t |-> "fspecial", name |-> name]

Bool(b) == [t |-> "bool", b |-> b]

Null == [t |-> "null"]

List(e) == [t |-> "list", e |-> e]

Dict(m) == [t |-> "dict", m |-> m]

KV(k, v) == [k |-> k, v |-> v]

EmptyDict == Dict(<<>>)

IsDict(v) == v.t = "dict"

IsList(v) == v.t = "list"

IsStr(v) == v.t = "str"

\* bool(v)
Truthy(v) ==
    CASE v.t = "null" -> FALSE
      [] v.t = "bool" -> v.b
      [] v.t = "num" -> v.n # 0
      [] v.t = "fspecial" -> TRUE
      [] v.t = "str" -> v.s # ""
      [] v.t = "list" -> v.e # <<>>
      [] v.t = "dict" -> v.m # <<>>
      [] OTHER -> TRUE

\* key in d, for a dict d
HasKey(d, key) == \E i \in 1..Len(d.m) : d.m[i].k = key

\* d[key], for a dict d that has the key
Lookup(d, key) == d.m[CHOOSE i \in 1..Len(d.m) : d.m[i].k = key].v

\* d.get(key, default)
Get(d, key, default) == IF HasKey(d, key) THEN Lookup(d, key) ELSE default

\* d[key] = val: replaces in place, or appends a new key
DictSet(d, key, val) ==
    IF HasKey(d, key)
    THEN Dict([i \in 1..Len(d.m) |->
                  IF d.m[i].k = key THEN KV(key, val) ELSE d.m[i]])
    ELSE Dict(Append(d.m, KV(key, val)))

(***************************************************************************)
(* json.loads, over the JSON grammar: objects, arrays, strings with the    *)
(* standard escapes, numbers with an optional sign and fraction (kept to   *)
(* two decimals), true, false, null and Python's NaN / Infinity literals.  *)
(* A parse yields [ok, v, pos]: pos is the position after the value.       *)
(***************************************************************************)
ParseFail == [ok |-> FALSE, v |-> Null, pos |-> 0]

ParseOk(v, pos) == [ok |-> TRUE, v |-> v, pos |-> pos]

RECURSIVE ScanString(_, _, _)
\* the characters of a string literal from position j, up to its closing quote
ScanString(s, j, acc) ==
    With(FirstOf(s, j, {"\"", "\\", "\n", "\t", "\r"}),
         LAMBDA k0 :
             With([c |-> Char(s, k0), run |-> acc \o Slice(s, j, k0 - 1),
                   d |-> Char(s, k0 + 1)],
                  LAMBDA at :
                      IF k0 > Len(s) THEN ParseFail
                      ELSE IF at.c = "\"" THEN ParseOk(Str(at.run), k0 + 1)
                      ELSE IF at.c # "\\" THEN ParseFail
                      ELSE IF at.d \in {"\"", "\\", "/"}
                           THEN ScanString(s, k0 + 2, at.run \o at.d)
                      ELSE IF at.d = "n" THEN ScanString(s, k0 + 2, at.run \o "\n")
                      ELSE IF at.d = "t" THEN ScanString(s, k0 + 2, at.run \o "\t")
                      ELSE IF at.d = "r" THEN ScanString(s, k0 + 2, at.run \o "\r")
                      ELSE ParseFail))

RECURSIVE ScanDigits(_, _, _)
\* the run of digits from position j: [n |-> value, pos |-> position after]
ScanDigits(s, j, acc) ==
    IF IsDigit(Char(s, j))
    THEN ScanDigits(s, j + 1, 10 * acc + DigitVal(Char(s, j)))
    ELSE [n |-> acc, pos |-> j]

\* a JSON number at position i (after an optional minus sign)
\* the first two digits of a fraction, as hundredths
Hundredths(d1, d2) == 10 * DigitVal(d1) + (IF IsDigit(d2) THEN DigitVal(d2) ELSE 0)

\* a JSON number whose digits start at position j, with the sign given
ScanUnsigned(s, j, sign) ==
    With(IF Char(s, j) = "0" THEN [n |-> 0, pos |-> j + 1] ELSE ScanDigits(s, j, 0),
         LAMBDA whole :
             IF ~IsDigit(Char(s, j)) THEN ParseFail
             ELSE IF Char(s, whole.pos) = "." /\ IsDigit(Char(s, whole.pos + 1))
                  THEN ParseOk(Float(sign * (100 * whole.n
                                   + Hundredths(Char(s, whole.pos + 1),
                                                Char(s, whole.pos + 2)))),
                               ScanDigits(s, whole.pos + 1, 0).pos)
                  ELSE ParseOk(Num(sign * 100 * whole.n), whole.pos))

\* a JSON number at position i (after an optional minus sign)
ScanNumber(s, i) ==
    IF Char(s, i) = "-" THEN ScanUnsigned(s, i + 1, 0 - 1) ELSE ScanUnsigned(s, i, 1)

RECURSIVE ParseValue(_, _), ParseMembers(_, _, _), ParseElements(_, _, _)
\* a JSON value at position i (leading whitespace already skipped)
ParseValue(s, i) ==
    With([c |-> Char(s, i), j |-> SkipSpace(s, i + 1)],
         LAMBDA at :
        IF at.c = "{"
        THEN IF Char(s, at.j) = "}" THEN ParseOk(EmptyDict, at.j + 1)
             ELSE ParseMembers(s, at.j, EmptyDict)
        ELSE IF at.c = "["
        THEN IF Char(s, at.j) = "]" THEN ParseOk(List(<<>>), at.j + 1)
             ELSE ParseElements(s, at.j, <<>>)
        ELSE IF at.c = "\"" THEN ScanString(s, i + 1, "")
        ELSE IF Slice(s, i, i + 3) = "true" THEN ParseOk(Bool(TRUE), i + 4)
        ELSE IF Slice(s, i, i + 4) = "false" THEN ParseOk(Bool(FALSE), i + 5)
        ELSE IF Slice(s, i, i + 3) = "null" THEN ParseOk(Null, i + 4)
        ELSE IF Slice(s, i, i + 2) = "NaN"
             THEN ParseOk(FloatSpecial("nan"), i + 3)
        ELSE IF Slice(s, i, i + 7) = "Infinity"
             THEN ParseOk(FloatSpecial("inf"), i + 8)
        ELSE IF Slice(s, i, i + 8) = "-Infinity"
             THEN ParseOk(FloatSpecial("-inf"), i + 9)
        ELSE ScanNumber(s, i))

\* the members of an object from position i (at a key), added to dict acc
ParseMembers(s, i, acc) ==
    IF Char(s, i) # "\"" THEN ParseFail
    ELSE With(ScanString(s, i + 1, ""), LAMBDA key :
         IF ~key.ok THEN ParseFail
         ELSE With(SkipSpace(s, key.pos), LAMBDA colon :
         IF Char(s, colon) # ":" THEN ParseFail
         ELSE With(ParseValue(s, SkipSpace(s, colon + 1)), LAMBDA val :
         IF ~val.ok THEN ParseFail
         ELSE With([nxt |-> SkipSpace(s, val.pos),
                    d |-> DictSet(acc, key.v.s, val.v)], LAMBDA after :
         IF Char(s, after.nxt) = "}" THEN ParseOk(after.d, after.nxt + 1)
         ELSE IF Char(s, after.nxt) = ","
              THEN ParseMembers(s, SkipSpace(s, after.nxt + 1), after.d)
              ELSE ParseFail))))

\* the elements of an array from position i, appended to sequence acc
ParseElements(s, i, acc) ==
    With(ParseValue(s, i), LAMBDA val :
    IF ~val.ok THEN ParseFail
    ELSE With([nxt |-> SkipSpace(s, val.pos), e |-> Append(acc, val.v)], LAMBDA after :
         IF Char(s, after.nxt) = "]" THEN ParseOk(List(after.e), after.nxt + 1)
         ELSE IF Char(s, after.nxt) = ","
              THEN ParseElements(s, SkipSpace(s, after.nxt + 1), after.e)
              ELSE ParseFail))

\* json.loads(s): [ok |-> FALSE] stands for the JSONDecodeError it raises
json_loads(s) ==
    With(ParseValue(s, SkipSpace(s, 1)),
         LAMBDA r : IF r.ok /\ SkipSpace(s, r.pos) > Len(s) THEN r ELSE ParseFail)

(***************************************************************************)
(* re.findall for the patterns of extract_json_from_text.                  *)
(***************************************************************************)
\* The backquote character: a TLA+ string cannot hold one, so every text of the
\* model writes "~" where the program's text has a backquote.
BackTick == "~"

Fence == "~~~"

\* smallest q in lo..c with only whitespace at q..c-1
WsRunStart(s, c, lo) ==
    With({q \in lo..c : \A j \in q..(c - 1) : IsSpace(Char(s, j))},
         LAMBDA starts : CHOOSE q \in starts : \A r \in starts : q <= r)

RECURSIVE FenceFindall(_, _, _)
\* re.findall of run.py's fence patterns (an opening fence, whitespace, a lazy
\* capture, whitespace, a closing fence; DOTALL), scanning from position from
FenceFindall(s, open, from) ==
    With(FindFrom(s, open, from), LAMBDA p :
    With(SkipSpace(s, p + Len(open)), LAMBDA a :
    With(FindFrom(s, Fence, a), LAMBDA c :
        IF p = 0 THEN <<>>
        ELSE IF c = 0 THEN FenceFindall(s, open, p + 1)
        ELSE <<Slice(s, a, WsRunStart(s, c, a) - 1)>>
                 \o FenceFindall(s, open, c + Len(Fence)))))

\* first position >= i that holds a brace (Len(s) + 1 when none)
SkipNonBrace(s, i) == FirstOf(s, i, {"{", "}"})

RECURSIVE BraceGroups(_, _)
\* the repeated one-level inner groups and the closing brace of run.py's
\* object pattern, from position j: position of the closing brace, or 0
BraceGroups(s, j) ==
    IF Char(s, j) = "}" THEN j
    ELSE IF Char(s, j) = "{"
         THEN With(SkipNonBrace(s, j + 1), LAMBDA k :
                  IF Char(s, k) = "}"
                  THEN BraceGroups(s, SkipNonBrace(s, k + 1))
                  ELSE 0)
         ELSE 0

\* run.py's object pattern matched at position p: its end, or 0
BraceMatchEnd(s, p) ==
    IF Char(s, p) = "{" THEN BraceGroups(s, SkipNonBrace(s, p + 1)) ELSE 0

RECURSIVE BraceFindall(_, _)
\* re.findall of run.py's object pattern (braces with at most one level of
\* inner braces), from position from
BraceFindall(s, from) ==
    With(FindFrom(s, "{", from), LAMBDA p :
    With(BraceMatchEnd(s, p), LAMBDA e :
        IF p = 0 THEN <<>>
        ELSE IF e = 0 THEN BraceFindall(s, p + 1)
        ELSE <<Slice(s, p, e)>> \o BraceFindall(s, e + 1)))

RECURSIVE FirstLoads(_)
\* the loop "for match in matches: try: return json.loads(match)"
FirstLoads(matches) ==
    IF matches = <<>> THEN ParseFail
    ELSE With(json_loads(Head(matches)),
              LAMBDA r : IF r.ok THEN r ELSE FirstLoads(Tail(matches)))

\* run.py extract_json_from_text: json.loads of the text itself, then of every
\* match of the three patterns in turn; what it returned first, else {}
extract_json_from_text(text) ==
    With(FirstLoads(<<text>> \o FenceFindall(text, "~~~json", 1)
                            \o FenceFindall(text, Fence, 1)
                            \o BraceFindall(text, 1)),
         LAMBDA r : IF r.ok THEN r.v ELSE EmptyDict)

RECURSIVE MainFenceFindall(_, _, _)
\* re.findall of main.py's fence patterns (an opening fence, whitespace, a
\* lazy capture from an opening to a closing brace, whitespace, a closing fence)
MainFenceFindall(s, open, from) ==
    With(FindFrom(s, open, from), LAMBDA p :
    With(SkipSpace(s, p + Len(open)), LAMBDA a :
    With({k \in (a + 1)..Len(s) :
             /\ Char(s, k) = "}"
             /\ startswith(Slice(s, SkipSpace(s, k + 1), Len(s)), Fence)},
         LAMBDA ends :
        IF p = 0 THEN <<>>
        ELSE IF Char(s, a) # "{" \/ ends = {}
             THEN MainFenceFindall(s, open, p + 1)
        ELSE With(CHOOSE k \in ends : \A j \in ends : k <= j, LAMBDA k0 :
                 <<Slice(s, a, k0)>>
                     \o MainFenceFindall(s, open, SkipSpace(s, k0 + 1) + Len(Fence))))))

RECURSIVE MainBraceFindall(_, _)
\* re.findall of main.py's third pattern: an opening brace, greedily to the
\* last closing brace before the next backtick
MainBraceFindall(s, from) ==
    With(FindFrom(s, "{", from), LAMBDA p :
    With(FirstOf(s, p, {BackTick}) - 1, LAMBDA limit :
    With({k \in (p + 1)..limit : Char(s, k) = "}"}, LAMBDA ends :
        IF p = 0 THEN <<>>
        ELSE IF ends = {} THEN MainBraceFindall(s, p + 1)
        ELSE With(CHOOSE k \in ends : \A j \in ends : k >= j, LAMBDA k0 :
                 <<Slice(s, p, k0)>> \o MainBraceFindall(s, k0 + 1)))))

\* the last resort of main.py's extractor: the text from its first opening
\* brace to its last closing brace, when they are in that order
OuterBraces(text, start, end) ==
    IF start # 0 /\ end # 0 /\ end > start THEN <<Slice(text, start, end)>> ELSE <<>>

\* main.py extract_json_from_text, for the stripped text
main_extract_stripped(text) ==
    With(FirstLoads(<<text>> \o MainFenceFindall(text, "~~~json", 1)
                            \o MainFenceFindall(text, Fence, 1)
                            \o MainBraceFindall(text, 1)
                            \o OuterBraces(text, FindFrom(text, "{", 1),
                                           RFind(text, "}"))),
         LAMBDA r : IF r.ok THEN r.v ELSE EmptyDict)

\* main.py extract_json_from_text
main_extract_json_from_text(raw) == main_extract_stripped(strip(raw))

(***************************************************************************)
(* Text classifier.  A TLA+ string holds only ASCII: the model writes      *)
(* "$" for the integral sign, "&" for the summation sign, "|" for the      *)
(* product sign, "#" for the multiplication sign and "@" for the root sign.*)
(***************************************************************************)
greetings == {"hi", "hello", "hey", "good morning", "good afternoon", "good evening"}

casual_queries == {"how are you", "what can you do", "help", "who are you", "what are you"}

math_keywords ==
    {"solve", "find", "calculate", "integrate", "differentiate", "derivative",
     "equation", "simplify", "prove", "evaluate", "factorize", "expand",
     "limit", "sum", "product", "matrix", "determinant", "vector"}

math_symbols ==
    {"=", "+", "-", "*", "/", "^", "$", "&", "|", "sin", "cos", "tan", "log", "ln"}

\* the veto loop of is_math_question: equal to, or starting with, a phrase
IsCasualPhrase(text_lower) ==
    \E greeting \in greetings \cup casual_queries :
        text_lower = greeting \/ startswith(text_lower, greeting)

\* re.search for digits, whitespace, one of + - * / ^, whitespace, digits
ArithmeticSearch(text) ==
    \E i \in 1..Len(text) :
        /\ IsDigit(Char(text, i))
        /\ LET op == SkipSpace(text, i + 1)
           IN  /\ Char(text, op) \in {"+", "-", "*", "/", "^"}
               /\ IsDigit(Char(text, SkipSpace(text, op + 1)))

\* the positive signals of run.py is_math_question: a keyword in the lowered
\* text, a symbol in the text, or the arithmetic pattern
positive_signals(text, text_lower) ==
    IF \E keyword \in math_keywords : str_contains(keyword, text_lower) THEN TRUE
    ELSE IF \E symbol \in math_symbols : str_contains(symbol, text) THEN TRUE
    ELSE ArithmeticSearch(text)

\* run.py is_math_question
is_math_question(text) ==
    With(strip(lower(text)), LAMBDA text_lower :
        IF IsCasualPhrase(text_lower) THEN FALSE
        ELSE positive_signals(text, text_lower))

main_math_keywords ==
    {"solve", "find", "calculate", "integrate", "differentiate", "derivative",
     "equation", "simplify", "prove", "evaluate", "factorize", "factor", "expand",
     "limit", "sum", "product", "matrix", "determinant", "vector", "percent",
     "percentage", "angle", "triangle", "circle", "area", "volume", "what is"}

main_math_symbols ==
    {"=", "+", "-", "#", "/", "^", "$", "&", "|", "sin", "cos", "tan", "log", "ln",
     "%", "@"}

\* the positive signals of main.py is_math_question: a keyword in the lowered
\* text, a symbol in the text, or a digit
main_positive_signals(text, text_lower) ==
    IF \E keyword \in main_math_keywords : str_contains(keyword, text_lower)
    THEN TRUE
    ELSE IF \E symbol \in main_math_symbols : str_contains(symbol, text) THEN TRUE
    ELSE \E i \in 1..Len(text) : IsDigit(Char(text, i))

\* main.py is_math_question
main_is_math_question(text) ==
    With(strip(lower(text)), LAMBDA text_lower :
        IF IsCasualPhrase(text_lower) THEN FALSE
        ELSE main_positive_signals(text, text_lower))

(***************************************************************************)
(* Conversational handler.                                                 *)
(***************************************************************************)
\* the keys of response_map, in the order the dictionary lists them
response_keys ==
    <<"hi", "hello", "hey", "how are you", "what can you do", "who are you", "help">>

response_map(key) ==
    CASE key = "hi" -> "Hello! I'm your JEE Math Mentor, here to help you solve complex mathematics problems step by step. Ask me any math question!"
      [] key = "hello" -> "Hi there! I'm your JEE Math Mentor, ready to assist with any mathematical problem you have. What would you like to solve today?"
      [] key = "hey" -> "Hey! I'm your JEE Math Mentor. I specialize in solving mathematical problems with detailed step-by-step solutions. How can I help?"
      [] key = "how are you" -> "I'm doing great, thank you! I'm your JEE Math Mentor, and I'm here to help you master mathematics. Do you have a math problem you'd like to solve?"
      [] key = "what can you do" -> "I'm a JEE Math Mentor specialized in solving mathematical problems! I can help with calculus, algebra, trigonometry, geometry, and more. Just ask me any math question!"
      [] key = "who are you" -> "I'm your JEE Math Mentor - an AI assistant specialized in solving mathematics problems step by step. I'm here to help you understand and solve complex math questions!"
      [] OTHER -> "I'm here to help you with mathematics! I can solve equations, integration, differentiation, trigonometry, algebra, and much more. Just type your math question and I'll provide a detailed step-by-step solution."

\* the reply when no key of response_map occurs in the text (run.py / main.py)
DefaultCasualResponse(isMain) ==
    IF isMain
    THEN "I'm a JEE Math Mentor, specialized in solving mathematical problems. If you have any math questions, feel free to ask!"
    ELSE "I'm a JEE Math Mentor, specialized in solving mathematical problems. If you have any math questions, feel free to ask! For non-mathematical queries, I'm here specifically to help with math."

RECURSIVE EscapeSpaces(_)
\* s.replace(' ', '\\ ')
EscapeSpaces(s) ==
    IF Len(s) <= 1 THEN (IF s = " " THEN "\\ " ELSE s)
    ELSE EscapeSpaces(Slice(s, 1, Len(s) \div 2))
             \o EscapeSpaces(Slice(s, Len(s) \div 2 + 1, Len(s)))

\* a summary string built by an f-string: the literal part and the formatted value
Summary(fmt, arg) == [fmt |-> fmt, arg |-> arg]

\* AgentResult(name, result, timestamp); the wall-clock timestamp is left out
AgentResult(name, result) == [name |-> name, result |-> result]

\* Step(step, description, latex)
Step(step, description, latex) ==
    [step |-> step, description |-> description, latex |-> latex]

\* handle_casual_query, for the reply text chosen
CasualSolutionResponse(casual_response) ==
    [finalAnswer |-> [latex |-> "\\text{" \o EscapeSpaces(casual_response) \o "}",
                      confidence |-> Float(100)],
     steps |-> <<Step(1, casual_response, "\\text{Ready to help with math!}")>>,
     verification |-> [status |-> "casual_response", method |-> "conversational"],
     agentTrace |-> <<"conversational_handler">>,
     hitlApplied |-> FALSE,
     agentResults |-> <<AgentResult("conversational_handler",
                                    Summary("Handled casual query", Null))>>]

\* handle_casual_query (both files; isMain picks main.py's default reply)
handle_casual_query(text, isMain) ==
    LET text_lower == strip(lower(text))
        hits == {i \in 1..Len(response_keys) :
                    str_contains(response_keys[i], text_lower)}
        first == CHOOSE i \in hits : \A j \in hits : i <= j
    IN  CasualSolutionResponse(IF hits = {} THEN DefaultCasualResponse(isMain)
                               ELSE response_map(response_keys[first]))

(***************************************************************************)
(* Python evaluation helpers.  A computation either returns a value or     *)
(* raises: Return(v) or Raise(kind).                                       *)
(***************************************************************************)
Return(v) == [raised |-> FALSE, v |-> v]

Raise(kind) == [raised |-> TRUE, kind |-> kind]

\* str(n) for a natural number below 1000
IntToStr(n) ==
    LET digit(d) == SubSeq("0123456789", d + 1, d + 1)
    IN  IF n < 10 THEN digit(n)
        ELSE IF n < 100 THEN digit(n \div 10) \o digit(n % 10)
        ELSE digit(n \div 100) \o digit((n \div 10) % 10) \o digit(n % 10)

\* the operator "in" is defined for v (else TypeError)
IsContainer(v) == v.t \in {"dict", "list", "str"}

\* key in v, for a container v
In(key, v) ==
    CASE v.t = "dict" -> HasKey(v, key)
      [] v.t = "list" -> \E i \in 1..Len(v.e) : v.e[i] = Str(key)
      [] OTHER -> str_contains(key, v.s)

\* v[:n] is defined for v (else TypeError)
IsSliceable(v) == v.t \in {"str", "list"}

\* v can be a dictionary key (else TypeError: unhashable type)
IsHashable(v) == v.t \notin {"dict", "list"}

\* float(s) for a string: decimal literals and the nan / inf spellings
StrToFloat(raw) ==
    With(lower(strip(raw)), LAMBDA s :
    With(IF Char(s, 1) \in {"+", "-"} THEN Slice(s, 2, Len(s)) ELSE s, LAMBDA unsigned :
    With(IF Char(s, 1) = "+" THEN unsigned ELSE s, LAMBDA literal :
    With(ScanNumber(literal, 1), LAMBDA num :
        IF unsigned = "nan" THEN Return(FloatSpecial("nan"))
        ELSE IF unsigned \in {"inf", "infinity"}
             THEN Return(FloatSpecial(IF Char(s, 1) = "-" THEN "-inf" ELSE "inf"))
        ELSE IF num.ok /\ num.pos > Len(literal) THEN Return(Float(num.v.n))
        ELSE Raise("ValueError")))))

\* float(v)
PyFloat(v) ==
    CASE v.t = "num" -> Return(Float(v.n))
      [] v.t = "fspecial" -> Return(v)
      [] v.t = "bool" -> Return(Float(IF v.b THEN 100 ELSE 0))
      [] v.t = "str" -> StrToFloat(v.s)
      [] OTHER -> Raise("TypeError")

(***************************************************************************)
(* Completion client.  An exchange with the completion endpoint is         *)
(* [status, content]: status 0 is a transport fault, content is the first  *)
(* choice's message content (a str, or None for a JSON null).              *)
(***************************************************************************)
Exchange(status, content) == [status |-> status, content |-> content]

\* call_llm: returns the content, or raises HTTPException(500)
call_llm(exchange) ==
    IF exchange.status = 200 THEN Return(exchange.content)
    ELSE Raise("HTTPException")

\* what an agent returns: {"result": ..., "data": ...}
AgentReturn(result, data) == [result |-> result, data |-> data]

(***************************************************************************)
(* run.py: parser, router, solver, verifier, explainer.                    *)
(***************************************************************************)
DefaultParsed(question) ==
    Dict(<<KV("problem_type", Str("mathematical problem")),
           KV("concepts", List(<<Str("general math")>>)),
           KV("normalized_question", Str(question))>>)

\* the try block of run.py parser_agent
parser_agent_try(question, exchange) ==
    With(call_llm(exchange), LAMBDA response :
    IF response.raised THEN response
    ELSE IF ~IsSliceable(response.v) THEN Raise("TypeError")
    ELSE With(extract_json_from_text(response.v.s), LAMBDA extracted :
    IF Truthy(extracted) /\ ~IsContainer(extracted) THEN Raise("TypeError")
    ELSE With(IF ~Truthy(extracted) \/ ~In("problem_type", extracted)
              THEN DefaultParsed(question)
              ELSE extracted, LAMBDA parsed :
    IF ~IsDict(parsed) THEN Raise("AttributeError")
    ELSE Return(AgentReturn(
             Summary("Identified as: ",
                     Get(parsed, "problem_type", Str("mathematical problem"))),
             parsed)))))

\* faulty variant of parser_agent: no except branch
parser_agent_unguarded(question, exchange) == parser_agent_try(question, exchange)

\* run.py parser_agent
parser_agent(question, exchange) ==
    With(parser_agent_try(question, exchange), LAMBDA try :
    IF try.raised
    THEN Return(AgentReturn(Summary("Identified as: mathematical problem", Null),
                            DefaultParsed(question)))
    ELSE try)

Strategy(name, key_steps) ==
    Dict(<<KV("strategy", Str(name)),
           KV("key_steps", List([i \in 1..Len(key_steps) |-> Str(key_steps[i])]))>>)

\* run.py strategy_map, with the default of strategy_map.get
strategy_map(problem_type) ==
    CASE problem_type = Str("trigonometry") ->
            Strategy("Trigonometric identities and equation solving",
                     <<"Apply trigonometric identities to simplify",
                       "Solve the resulting equation",
                       "Verify solutions are in the given domain">>)
      [] problem_type = Str("integration") ->
            Strategy("Integration techniques",
                     <<"Identify the integration method (substitution, parts, etc.)",
                       "Apply the method step by step",
                       "Add constant of integration and verify">>)
      [] problem_type = Str("differentiation") ->
            Strategy("Differentiation rules",
                     <<"Identify applicable differentiation rules",
                       "Apply rules systematically",
                       "Simplify the final derivative">>)
      [] problem_type = Str("algebra") ->
            Strategy("Algebraic manipulation and solving",
                     <<"Simplify and rearrange the equation",
                       "Solve for the unknown variable(s)",
                       "Verify the solution">>)
      [] OTHER ->
            Strategy("Step-by-step analytical approach",
                     <<"Understand the problem requirements",
                       "Apply appropriate mathematical techniques",
                       "Verify the solution">>)

\* run.py router_agent: a dictionary lookup raises on an unhashable key
router_agent(parsed_data) ==
    LET problem_type == Get(parsed_data, "problem_type", Str("unknown"))
        strategy == strategy_map(problem_type)
    IN  IF ~IsHashable(problem_type) THEN Raise("TypeError")
        ELSE Return(AgentReturn(
                 Summary("Strategy selected: ", Lookup(strategy, "strategy")),
                 strategy))

SolverStep(step_number, description, latex_expression) ==
    Dict(<<KV("step_number", step_number),
           KV("description", description),
           KV("latex_expression", latex_expression)>>)

Solution(final_answer_latex, solution_steps) ==
    Dict(<<KV("final_answer_latex", final_answer_latex),
           KV("solution_steps", List(solution_steps))>>)

\* the static solution of the except branch of run.py solver_agent
SolverFallback(question) ==
    Solution(Str("\\text{Solution computation in progress}"),
             <<SolverStep(Num(100), Str("Problem analysis"),
                          Str("\\text{Analyzing: } " \o Prefix(question, 50))),
               SolverStep(Num(200), Str("Solution approach"),
                          Str("\\text{Applying mathematical techniques}"))>>)

\* the validation loop of run.py solver_agent: the dict steps, with defaults
ValidatedSteps(steps) ==
    LET RECURSIVE walk(_)
        walk(i) ==
            IF i > Len(steps) THEN <<>>
            ELSE (IF IsDict(steps[i])
                  THEN <<SolverStep(
                            Get(steps[i], "step_number", Num(100 * i)),
                            Get(steps[i], "description", Str("Step " \o IntToStr(i))),
                            Get(steps[i], "latex_expression", Str("...")))>>
                  ELSE <<>>) \o walk(i + 1)
    IN  walk(1)

\* the try block of run.py solver_agent
solver_agent_try(question, exchange) ==
    With(call_llm(exchange), LAMBDA response :
    IF response.raised THEN response
    ELSE IF ~IsStr(response.v) THEN Raise("TypeError")
    ELSE With(extract_json_from_text(response.v.s), LAMBDA extracted :
    IF Truthy(extracted) /\ ~IsContainer(extracted) THEN Raise("TypeError")
    ELSE With(IF ~Truthy(extracted) \/ ~In("final_answer_latex", extracted)
              THEN Solution(Str("\\text{Solution requires manual review}"), <<>>)
              ELSE extracted, LAMBDA solution :
    IF ~IsDict(solution) THEN Raise("TypeError")
    ELSE With(IF ~HasKey(solution, "solution_steps")
                     \/ ~IsList(Lookup(solution, "solution_steps"))
              THEN DictSet(solution, "solution_steps",
                       List(<<SolverStep(Num(100),
                                Str("Analyzing the problem"),
                                Str("\\text{Problem: } " \o Prefix(question, 50)))>>))
              ELSE solution, LAMBDA listed :
         With(ValidatedSteps(Lookup(listed, "solution_steps").e),
              LAMBDA validated_steps :
         With(IF validated_steps # <<>>
              THEN DictSet(listed, "solution_steps", List(validated_steps))
              ELSE listed, LAMBDA final :
         IF ~IsSliceable(Get(final, "final_answer_latex", Str("N/A")))
         THEN Raise("TypeError")
         ELSE Return(AgentReturn(
                  Summary("Generated detailed solution with {} steps",
                          Num(100 * Len(Lookup(final, "solution_steps").e))),
                  final))))))))

\* faulty variant of solver_agent: its try block without the except branch
solver_agent_unguarded(question, exchange) == solver_agent_try(question, exchange)

\* run.py solver_agent
solver_agent(question, exchange) ==
    With(solver_agent_try(question, exchange), LAMBDA try :
    IF try.raised
    THEN Return(AgentReturn(Summary("Generated basic solution structure", Null),
                            SolverFallback(question)))
    ELSE try)

DefaultVerification ==
    Dict(<<KV("is_correct", Bool(TRUE)),
           KV("confidence", Float(85)),
           KV("verification_method", Str("logical verification")),
           KV("issues", List(<<>>))>>)

\* the try block of run.py verifier_agent
verifier_agent_try(exchange) ==
    With(call_llm(exchange), LAMBDA response :
    IF response.raised THEN response
    ELSE IF ~IsSliceable(response.v) THEN Raise("TypeError")
    ELSE With(extract_json_from_text(response.v.s), LAMBDA extracted :
    IF Truthy(extracted) /\ ~IsContainer(extracted) THEN Raise("TypeError")
    ELSE With(IF ~Truthy(extracted) \/ ~In("is_correct", extracted)
              THEN DefaultVerification
              ELSE extracted, LAMBDA verification :
    IF ~IsDict(verification) THEN Raise("TypeError")
    ELSE With(IF HasKey(verification, "confidence")
              THEN With(PyFloat(Lookup(verification, "confidence")), LAMBDA f :
                        DictSet(verification, "confidence",
                                IF f.raised THEN Float(85) ELSE f.v))
              ELSE verification, LAMBDA coerced :
         Return(AgentReturn(
             Summary("Verified: ",
                     Get(coerced, "verification_method", Str("logical check"))),
             coerced))))))

\* faulty variant of verifier_agent: its try block without the except branch
verifier_agent_unguarded(exchange) == verifier_agent_try(exchange)

\* run.py verifier_agent
verifier_agent(exchange) ==
    With(verifier_agent_try(exchange), LAMBDA try :
    IF try.raised
    THEN Return(AgentReturn(Summary("Verification completed", Null),
                            DefaultVerification))
    ELSE try)

\* run.py explainer_agent
explainer_agent(solution) ==
    LET steps == Get(solution, "solution_steps", List(<<>>))
    IN  Return(AgentReturn(
            Summary("Generated explanation with {} steps", Num(100 * Len(steps.e))),
            Dict(<<KV("explanation",
                      Str("Detailed solution provided with step-by-step breakdown"))>>)))

(***************************************************************************)
(* main.py: parser, router, solver, verifier.                              *)
(***************************************************************************)
\* any(word in question_lower for word in words)
AnyWordIn(words, question_lower) == \E word \in words : str_contains(word, question_lower)

\* main.py parser_agent: a local keyword classification, no completion request
main_parser_agent(question) ==
    LET question_lower == lower(question)
        Parsed(problem_type, concepts) ==
            AgentReturn(Summary("Identified as: ", Str(problem_type)),
                        Dict(<<KV("problem_type", Str(problem_type)),
                               KV("concepts", List(concepts)),
                               KV("normalized_question", Str(question))>>))
    IN  Return(
        IF AnyWordIn({"sin", "cos", "tan", "cot", "sec", "csc"}, question_lower)
        THEN Parsed("trigonometry", <<Str("trigonometric equations"), Str("identities")>>)
        ELSE IF AnyWordIn({"integrate", "integration", "$"}, question_lower)
        THEN Parsed("integration", <<Str("calculus"), Str("integration")>>)
        ELSE IF AnyWordIn({"differentiate", "derivative", "d/dx"}, question_lower)
        THEN Parsed("differentiation", <<Str("calculus"), Str("differentiation")>>)
        ELSE IF AnyWordIn({"equation", "solve", "find x", "find y"}, question_lower)
        THEN Parsed("algebra", <<Str("algebraic equations")>>)
        ELSE IF AnyWordIn({"triangle", "circle", "angle", "area", "perimeter"}, question_lower)
        THEN Parsed("geometry", <<Str("geometric calculations")>>)
        ELSE Parsed("mathematical problem", <<Str("general math")>>))

\* main.py strategy_map, with the default of strategy_map.get
main_strategy_map(problem_type) ==
    CASE problem_type = Str("trigonometry") ->
            Strategy("Trigonometric problem solving",
                     <<"Apply trigonometric identities", "Simplify the expression",
                       "Solve for the variable", "Find all solutions in the given range">>)
      [] problem_type = Str("integration") ->
            Strategy("Integration techniques",
                     <<"Identify the integration method",
                       "Apply substitution or integration by parts if needed",
                       "Integrate term by term", "Add constant of integration">>)
      [] problem_type = Str("differentiation") ->
            Strategy("Differentiation rules",
                     <<"Identify the function type",
                       "Apply appropriate differentiation rules",
                       "Simplify the derivative">>)
      [] problem_type = Str("algebra") ->
            Strategy("Algebraic manipulation",
                     <<"Simplify the equation", "Isolate the variable",
                       "Solve for the unknown", "Verify the solution">>)
      [] problem_type = Str("geometry") ->
            Strategy("Geometric problem solving",
                     <<"Identify given information", "Apply relevant formulas",
                       "Calculate the required value">>)
      [] OTHER ->
            Strategy("Step-by-step analytical approach",
                     <<"Understand the problem", "Apply mathematical techniques",
                       "Solve systematically", "Verify the answer">>)

\* main.py router_agent
main_router_agent(parsed_data) ==
    LET problem_type == Get(parsed_data, "problem_type", Str("unknown"))
        strategy == main_strategy_map(problem_type)
    IN  IF ~IsHashable(problem_type) THEN Raise("TypeError")
        ELSE Return(AgentReturn(
                 Summary("Strategy: ", Lookup(strategy, "strategy")), strategy))

RECURSIVE SplitLines(_)
\* s.split('\n')
SplitLines(s) ==
    With(FindFrom(s, "\n", 1), LAMBDA nl :
        IF nl = 0 THEN <<s>>
        ELSE <<Slice(s, 1, nl - 1)>> \o SplitLines(Slice(s, nl + 1, Len(s))))

\* the step parse_mathematical_response appends for the text gathered so far
ParsedStep(n, text) ==
    SolverStep(Num(100 * n), Str("Step " \o IntToStr(n)), Str(text))

\* the code after the loop of parse_mathematical_response
ParsedResult(all, final_answer) ==
    Dict(<<KV("final_answer",
              IF final_answer = "" /\ all # <<>>
              THEN Get(all[Len(all)], "latex_expression", Str("See solution above"))
              ELSE Str(final_answer)),
           KV("steps", List(all))>>)

\* one pass of the loop of parse_mathematical_response over a non-empty line:
\* the new values of steps, final_answer, step_num and current_step
ScanLine(line, indicated, concludes, steps, final_answer, step_num, current_step) ==
    [steps |-> IF indicated /\ current_step # ""
               THEN Append(steps, ParsedStep(step_num, current_step))
               ELSE steps,
     final_answer |-> IF indicated /\ concludes THEN line ELSE final_answer,
     step_num |-> IF indicated /\ current_step # "" THEN step_num + 1 ELSE step_num,
     current_step |-> (IF indicated /\ current_step # "" THEN "" ELSE current_step)
                          \o line \o " "]

RECURSIVE ScanLines(_, _, _)
\* the for loop of parse_mathematical_response from line i on, with the loop's
\* variables in at, then the code after the loop
ScanLines(lines, i, at) ==
    IF i > Len(lines)
    THEN ParsedResult(IF at.current_step # ""
                      THEN Append(at.steps, ParsedStep(at.step_num, strip(at.current_step)))
                      ELSE at.steps,
                      at.final_answer)
    ELSE With(strip(lines[i]), LAMBDA line :
         With(lower(line), LAMBDA low :
             IF line = "" THEN ScanLines(lines, i + 1, at)
             ELSE ScanLines(lines, i + 1,
                      ScanLine(line,
                               AnyWordIn({"step", "solution", "therefore", "answer",
                                          "result"}, low),
                               AnyWordIn({"answer", "result", "therefore"}, low),
                               at.steps, at.final_answer, at.step_num,
                               at.current_step))))

\* main.py parse_mathematical_response, for a str response
parse_mathematical_response(response) ==
    ScanLines(SplitLines(strip(response)), 1,
              [steps |-> <<>>, final_answer |-> "", step_num |-> 1, current_step |-> ""])

\* a or b
PyOr(a, b) == IF Truthy(a) THEN a ELSE b

RECURSIVE StructuredSteps(_, _)
\* the loop of structure_solution over the steps from index i on
StructuredSteps(items, i) ==
    IF i > Len(items) THEN <<>>
    ELSE (IF IsDict(items[i])
          THEN <<SolverStep(
                    PyOr(Get(items[i], "step", Null),
                         Get(items[i], "step_number", Num(100 * i))),
                    Get(items[i], "description", Str("Step " \o IntToStr(i))),
                    PyOr(PyOr(Get(items[i], "math", Null),
                              Get(items[i], "latex_expression", Null)),
                         Get(items[i], "latex", Str("..."))))>>
          ELSE <<>>) \o StructuredSteps(items, i + 1)

\* the return of structure_solution: at least two steps
StructuredSolution(final_answer, structured_steps, question) ==
    Solution(final_answer,
             IF Len(structured_steps) < 2
             THEN <<SolverStep(Num(100), Str("Problem Analysis"),
                               Str("\\text{Given: } " \o Prefix(question, 100))),
                    SolverStep(Num(200), Str("Solution"), final_answer)>>
             ELSE structured_steps)

\* main.py structure_solution
structure_solution(solution, question) ==
    IF ~IsDict(solution) THEN Raise("AttributeError")
    ELSE With(PyOr(PyOr(Get(solution, "steps", Null),
                        Get(solution, "solution_steps", Null)),
                   List(<<>>)), LAMBDA steps_data :
         IF ~(steps_data.t \in {"list", "str", "dict"}) THEN Raise("TypeError")
         ELSE Return(StructuredSolution(
                  PyOr(PyOr(Get(solution, "final_answer", Null),
                            Get(solution, "final_answer_latex", Null)),
                       Str("See detailed steps")),
                  StructuredSteps(IF IsList(steps_data) THEN steps_data.e ELSE <<>>, 1),
                  question)))

\* main.py create_fallback_solution
create_fallback_solution(question, problem_type) ==
    Solution(Str("\\text{Computing solution...}"),
             <<SolverStep(Num(100), Str("Problem Identification"),
                          Str("\\text{Type: " \o problem_type \o "}")),
               SolverStep(Num(200), Str("Given Problem"),
                          Str("\\text{" \o Prefix(question, 100) \o "}")),
               SolverStep(Num(300), Str("Solution Approach"),
                          Str("\\text{Applying mathematical techniques to solve}"))>>)

\* main.py solver_agent, try block up to the first extraction: raises, or yields
\* [retry, solution]: retry when the looser second request is to be made
main_solver_first(exchange) ==
    With(call_llm(exchange), LAMBDA response :
    IF response.raised THEN response
    ELSE IF ~IsSliceable(response.v) THEN Raise("TypeError")
    ELSE With(main_extract_json_from_text(response.v.s), LAMBDA solution :
         IF Truthy(solution) /\ ~IsContainer(solution) THEN Raise("TypeError")
         ELSE Return([retry |-> ~Truthy(solution) \/ ~In("final_answer", solution),
                      solution |-> solution])))

\* main.py solver_agent, the second request and the manual parse of its text
main_solver_second(exchange) ==
    With(call_llm(exchange), LAMBDA direct_response :
    IF direct_response.raised THEN direct_response
    ELSE IF ~IsStr(direct_response.v) THEN Raise("AttributeError")
    ELSE Return(parse_mathematical_response(direct_response.v.s)))

\* main.py solver_agent, from structure_solution to the return, for the outcome
\* of the steps before it; the except branch returns the fallback solution
main_solver_finish(attempt, question, problem_type) ==
    With(IF attempt.raised THEN attempt ELSE structure_solution(attempt.v, question),
         LAMBDA final_solution :
    IF final_solution.raised
           \/ ~IsSliceable(Lookup(final_solution.v, "final_answer_latex"))
    THEN Return(AgentReturn(Summary("Generated basic solution", Null),
                            create_fallback_solution(question, problem_type)))
    ELSE Return(AgentReturn(
             Summary("Generated solution with {} steps",
                     Num(100 * Len(Lookup(final_solution.v, "solution_steps").e))),
             final_solution.v)))

\* main.py verifier_agent: a local heuristic, no completion request
main_verifier_agent(solution) ==
    LET final_answer == Get(solution, "final_answer_latex", Str(""))
        steps_count == Len(Get(solution, "solution_steps", List(<<>>)).e)
        base == IF steps_count >= 3 THEN 90 ELSE 85
        length == IF IsStr(final_answer) THEN Len(final_answer.s) ELSE Len(final_answer.e)
        confidence == IF Truthy(final_answer) /\ length > 10
                      THEN Min(base + 5, 95) ELSE base
    IN  Return(AgentReturn(
            Summary("Verified with {}% confidence", Num(confidence)),
            Dict(<<KV("is_correct", Bool(TRUE)),
                   KV("confidence", Float(confidence)),
                   KV("verification_method", Str("logical_verification")),
                   KV("issues", List(<<>>))>>)))

(***************************************************************************)
(* pydantic field validation, for the major version (1 or 2) in use: both  *)
(* accept a str for a str field and an int for an int field; version 1     *)
(* also turns numbers into strings and truncates floats to integers.       *)
(***************************************************************************)
\* str(v) for a number or a bool
NumRepr(v) ==
    LET mag == IF v.n < 0 THEN 0 - v.n ELSE v.n
        sign == IF v.n < 0 THEN "-" ELSE ""
        frac == mag % 100
    IN  IF v.t = "bool" THEN (IF v.b THEN "True" ELSE "False")
        ELSE IF v.isint THEN sign \o IntToStr(mag \div 100)
        ELSE sign \o IntToStr(mag \div 100) \o "."
                  \o (IF frac % 10 = 0 THEN IntToStr(frac \div 10)
                      ELSE IntToStr(frac \div 10) \o IntToStr(frac % 10))

\* a value offered to a field declared str
PydanticStr(v, major) ==
    IF IsStr(v) THEN Return(v.s)
    ELSE IF major = 1 /\ v.t \in {"num", "bool"} THEN Return(NumRepr(v))
    ELSE Raise("ValidationError")

\* a value offered to a field declared int
PydanticInt(v, major) ==
    IF v.t = "num" /\ (v.isint \/ v.n % 100 = 0) THEN Return(v.n \div 100)
    ELSE IF v.t = "num" /\ major = 1
         THEN Return(IF v.n < 0 THEN 0 - ((0 - v.n) \div 100) ELSE v.n \div 100)
    ELSE IF v.t = "bool" THEN Return(IF v.b THEN 1 ELSE 0)
    ELSE IF ~IsStr(v) THEN Raise("ValidationError")
    ELSE With(StrToFloat(v.s), LAMBDA text :
         IF ~text.raised /\ text.v.t = "num" /\ text.v.n % 100 = 0
                /\ ~str_contains(".", v.s)
         THEN Return(text.v.n \div 100)
         ELSE Raise("ValidationError"))

(***************************************************************************)
(* Response assembly of run.py solve_math_problem.                         *)
(***************************************************************************)
agent_trace == <<"parser", "router", "solver", "verifier", "explainer">>

\* hitlApplied is question.confidence < 0.75
HitlThreshold == 75

\* one pass of the loop that turns the solver's steps into Step objects: the
\* Step of the validated fields, or the placeholder of the except branch
BuildStep(i, st, number, description, latex) ==
    IF IsDict(st) /\ ~number.raised /\ ~description.raised /\ ~latex.raised
    THEN Step(number.v, description.v, latex.v)
    ELSE Step(i, "Step " \o IntToStr(i), "...")

RECURSIVE BuildStepsFrom(_, _, _)
\* the loop over the solver's steps from index i on
BuildStepsFrom(solution_steps, i, major) ==
    IF i > Len(solution_steps) THEN <<>>
    ELSE With(solution_steps[i], LAMBDA st :
             <<BuildStep(i, st,
                   PydanticInt(Get(st, "step_number", Num(100 * i)), major),
                   PydanticStr(Get(st, "description", Str("Step " \o IntToStr(i))),
                               major),
                   PydanticStr(Get(st, "latex_expression", Str("...")), major))>>
                 \o BuildStepsFrom(solution_steps, i + 1, major))

\* faulty variant of BuildSteps: the entries that are not objects are dropped
\* before the loop
BuildSteps_dropping(solution_steps, major) ==
    BuildStepsFrom(SelectSeq(solution_steps, IsDict), 1, major)

\* the loop that turns the solver's steps into Step objects
BuildSteps(solution_steps, major) == BuildStepsFrom(solution_steps, 1, major)

\* faulty variant of hitlApplied: the threshold itself counts as below it
HitlApplied_inclusive(q) == q.confidence <= HitlThreshold

\* hitlApplied of the response
HitlApplied(q) == q.confidence < HitlThreshold

\* verification.status of the response
VerificationStatus(verification_data) ==
    IF Truthy(Get(verification_data, "is_correct", Bool(TRUE)))
    THEN "verified" ELSE "needs_review"

\* the "Build response" part of solve_math_problem: the SolutionResponse, or the
\* exception that the enclosing handler turns into HTTPException(500)
BuildResponse(q, solver_data, verification_data, results, major) ==
    With(BuildSteps(Get(solver_data, "solution_steps", List(<<>>)).e, major),
         LAMBDA built :
    With(PydanticStr(Get(solver_data, "final_answer_latex",
                         Str("\\text{Computing solution...}")), major),
         LAMBDA latex :
    With(PyFloat(Get(verification_data, "confidence", Float(85))),
         LAMBDA confidence :
    With(PydanticStr(Get(verification_data, "verification_method",
                         Str("logical verification")), major),
         LAMBDA method :
        IF latex.raised THEN latex
        ELSE IF confidence.raised THEN confidence
        ELSE IF method.raised THEN method
        ELSE Return([finalAnswer |-> [latex |-> latex.v, confidence |-> confidence.v],
                     steps |-> IF built = <<>>
                               THEN <<Step(1, "Solution step",
                                           "\\text{Solution in progress}")>>
                               ELSE built,
                     verification |-> [status |-> VerificationStatus(verification_data),
                                       method |-> method.v],
                     agentTrace |-> agent_trace,
                     hitlApplied |-> HitlApplied(q),
                     agentResults |-> results])))))

(***************************************************************************)
(* Inputs: the questions callers send and the exchanges the completion     *)
(* endpoint can answer with.                                               *)
(***************************************************************************)
\* most steps in a solution the completion endpoint returns
MaxLLMSteps == 3

\* a question longer than every truncation length of the solvers
LongQuestion ==
    "integrate xxxxxxxxxxxxxxxxxxxxxxxxxxxxxxxxxxxxxxxxxxxxxxxxxxxxxxxxxxxxxxxxxxxxxxxxxxxxxxxxxxxxxxxxxxxxxxxxxxxxxxxxxxxx dx"

\* every greeting and casual phrase as it stands, and other texts
QuestionTexts ==
    greetings \cup casual_queries
        \cup {"Hi ", "cats", "hi, what is 2+2", "2+2", "Solve x^2 - 5x + 6 = 0",
              LongQuestion}

\* caller-supplied confidence, in hundredths
QuestionConfidences == {74, 75, 100}

Questions ==
    [text : QuestionTexts, inputMode : {"text"},
     confidence : QuestionConfidences, requiresHITL : BOOLEAN]

\* the question slot of a request that never arrives
IdleQuestion ==
    [text |-> "hello", inputMode |-> "text", confidence |-> 100, requiresHITL |-> FALSE]

\* HTTP 500 from the endpoint, and a transport fault
FailedExchanges == {Exchange(500, Null), Exchange(0, Null)}

Ok(text) == Exchange(200, Str(text))

\* a successful exchange whose message content is null
NullContent == Exchange(200, Null)

ParserExchanges ==
    FailedExchanges \cup {NullContent,
        Ok("{\"problem_type\": \"algebra\", \"concepts\": [\"quadratic\"], \"normalized_question\": \"q\"}"),
        Ok("~~~json\n{\"problem_type\": \"xyz_unknown\", \"concepts\": []}\n~~~"),
        Ok("This looks like an algebra problem."),
        Ok("{\"problem_type\": [\"algebra\", \"geometry\"]}"),
        Ok("[\"problem_type\"]")}

RECURSIVE StepsJson(_, _)
\* the JSON text of steps i..n of a solution, in the solver prompt's format
StepsJson(i, n) ==
    IF i > n THEN ""
    ELSE "{\"step_number\": " \o IntToStr(i)
             \o ", \"description\": \"d\", \"latex_expression\": \"x\"}"
             \o (IF i < n THEN ", " ELSE "") \o StepsJson(i + 1, n)

\* a well-formed solver answer with n steps
SolutionJson(n) ==
    "{\"final_answer_latex\": \"x = 2, 3\", \"solution_steps\": ["
        \o StepsJson(1, n) \o "]}"

SolverExchanges ==
    FailedExchanges \cup {NullContent}
        \cup {Ok(SolutionJson(n)) : n \in 0..MaxLLMSteps}
        \cup {Ok("Here is the solution:\n~~~json\n" \o SolutionJson(2) \o "\n~~~"),
              Ok("The roots are 2 and 3."),
              Ok("{\"final_answer_latex\": \"\", \"solution_steps\": [{\"description\": \"d\"}]}"),
              Ok("{\"final_answer_latex\": \"x\", \"solution_steps\": [1, \"two\"]}"),
              Ok("{\"final_answer_latex\": \"x\", \"solution_steps\": [{\"step_number\": \"one\"}, null, {\"step_number\": 1.5, \"description\": 7}]}"),
              Ok("{\"final_answer_latex\": \"x\", \"solution_steps\": \"none\"}"),
              Ok("{\"final_answer_latex\": [\"x=2\", \"x=3\"], \"solution_steps\": []}"),
              Ok("{\"final_answer_latex\": 4}"),
              Ok("[\"final_answer_latex\"]"),
              Ok("{\"answer\": \"4\"}")}

VerifierExchanges ==
    FailedExchanges \cup {NullContent,
        Ok("{\"is_correct\": true, \"confidence\": 0.9, \"verification_method\": \"substitution\", \"issues\": []}"),
        Ok("The solution is correct."),
        Ok("{\"is_correct\": true, \"confidence\": \"high\"}"),
        Ok("{\"is_correct\": true, \"confidence\": 5}"),
        Ok("{\"is_correct\": false, \"confidence\": -1}"),
        Ok("{\"is_correct\": true, \"confidence\": 1.7}"),
        Ok("{\"is_correct\": false, \"confidence\": 0.4, \"issues\": [\"sign\"]}"),
        Ok("{\"is_correct\": true, \"confidence\": NaN}"),
        Ok("{\"is_correct\": null, \"confidence\": null}"),
        Ok("{\"is_correct\": \"no\"}"),
        Ok("{\"is_correct\": true, \"verification_method\": [\"a\", \"b\"]}"),
        Ok("{\"confidence\": 0.2}"),
        Ok("[\"is_correct\", \"confidence\"]")}

MainSolverExchanges ==
    FailedExchanges \cup {NullContent}
        \cup {Ok("{\"final_answer\": \"x = 2\", \"steps\": [" \o StepsJson(1, n) \o "]}") :
                  n \in 0..MaxLLMSteps}
        \cup {Ok("The roots are 2 and 3."),
              Ok("{\"final_answer\": \"\", \"steps\": [{\"step\": 1, \"math\": \"m\"}, {\"latex\": \"l\"}, 7]}"),
              Ok("{\"final_answer\": 4}"),
              Ok("{\"final_answer\": \"4\", \"steps\": 5}"),
              Ok("[\"final_answer\"]"),
              Ok("{\"final_answer_latex\": \"4\"}")}

MainSolverDirectExchanges ==
    FailedExchanges \cup {NullContent,
        Ok("Step 1: factor\n(x-2)(x-3)=0\n\nTherefore the answer is x = 2, 3"),
        Ok("x = 2 or x = 3"),
        Ok("  \n ")}

(***************************************************************************)
(* State: the local variables of each request being handled.               *)
(***************************************************************************)
Requests == {1, 2}

Stages == {"parser", "router", "solver", "verifier", "explainer"}

NoResult == [none |-> TRUE]

VARIABLES
    variant,          \* the deployed file: "run" (src/run.py) or "main" (src/main.py)
    pc,               \* where each request's handler stands
    question,         \* the MathQuestion of each request
    parser_result,    \* what parser_agent returned
    router_result,    \* what router_agent returned
    solver_result,    \* what solver_agent returned
    verifier_result,  \* what verifier_agent returned
    explainer_result, \* what explainer_agent returned
    solver_attempt,   \* main.py solver_agent between its two completion requests
    agent_results,    \* the agent_results list
    response,         \* the SolutionResponse returned to the caller
    http_status,      \* 200, or 500 when the handler raised HTTPException
    entered,          \* history: the agents invoked so far, in order
    exchanges,        \* history: the exchanges made for the request, in order
    raised_in,        \* history: the agents whose try block raised
    call,             \* a function called on its own: its name and argument
    returned          \* what that call returned

vars == <<variant, pc, question, parser_result, router_result, solver_result,
          verifier_result, explainer_result, solver_attempt, agent_results,
          response, http_status, entered, exchanges, raised_in, call, returned>>

\* no function is called on its own
NoCall == [fn |-> "none"]

results == <<parser_result, router_result, solver_result, verifier_result,
             explainer_result, solver_attempt>>

\* the state of a request before its handler runs
InitRequests(active) ==
    /\ variant \in {"run", "main"}
    /\ \E qs \in [active -> Questions] :
           question = [r \in Requests |-> IF r \in active THEN qs[r] ELSE IdleQuestion]
    /\ pc = [r \in Requests |-> IF r \in active THEN "received" ELSE "absent"]
    /\ parser_result = [r \in Requests |-> NoResult]
    /\ router_result = [r \in Requests |-> NoResult]
    /\ solver_result = [r \in Requests |-> NoResult]
    /\ verifier_result = [r \in Requests |-> NoResult]
    /\ explainer_result = [r \in Requests |-> NoResult]
    /\ solver_attempt = [r \in Requests |-> NoResult]
    /\ agent_results = [r \in Requests |-> <<>>]
    /\ response = [r \in Requests |-> NoResult]
    /\ http_status = [r \in Requests |-> 0]
    /\ entered = [r \in Requests |-> <<>>]
    /\ exchanges = [r \in Requests |-> <<>>]
    /\ raised_in = [r \in Requests |-> {}]

\* the requests that arrived
Arrived == {r \in Requests : pc[r] # "absent"}

\* the completions drawn on while several requests are in flight: a failure,
\* a well-formed answer for each agent, and an answer that is plain text
ConcurrentExchanges ==
    {Exchange(500, Null),
     Ok("{\"problem_type\": \"algebra\", \"concepts\": [\"quadratic\"], \"normalized_question\": \"q\"}"),
     Ok(SolutionJson(2)),
     Ok("The roots are 2 and 3."),
     Ok("{\"is_correct\": true, \"confidence\": 0.9, \"verification_method\": \"substitution\", \"issues\": []}"),
     Ok("{\"final_answer\": \"x = 2\", \"steps\": [" \o StepsJson(1, 2) \o "]}"),
     Ok("x = 2 or x = 3")}

\* what the completion request of an agent can end with: any of the agent's
\* exchanges while one request is handled, those of ConcurrentExchanges while
\* several are
Offered(agentExchanges) ==
    IF Cardinality(Arrived) <= 1 THEN agentExchanges
    ELSE agentExchanges \cap ConcurrentExchanges

(***************************************************************************)
(* Steps of the request handler.  A handler is suspended only inside       *)
(* call_llm, between an agent's ...Call step and its ...Return step.       *)
(***************************************************************************)
Note(stage, exchange) == [stage |-> stage, failed |-> exchange.status # 200]

\* the same for a completion request of solver_agent, with the content it gave
SolverNote(exchange) ==
    [stage |-> "solver", failed |-> exchange.status # 200,
     content |-> exchange.content]

\* the except branch of solve_math_problem: HTTPException(500)
Abort(r) ==
    /\ pc' = [pc EXCEPT ![r] = "error"]
    /\ http_status' = [http_status EXCEPT ![r] = 500]

\* faulty variant of SolveStart: the casual check is missing, so that every
\* request goes to the parser
SolveStart_unclassified(r) ==
    /\ variant = "run"
    /\ pc[r] = "received"
    /\ pc' = [pc EXCEPT ![r] = "parser"]
    /\ agent_results' = [agent_results EXCEPT ![r] = <<>>]
    /\ UNCHANGED <<variant, call, returned, question, results, response, http_status, entered,
                   exchanges, raised_in>>

\* run.py solve_math_problem, up to the first agent: the casual short-circuit
SolveStart(r) ==
    /\ variant = "run"
    /\ pc[r] = "received"
    /\ IF ~is_math_question(question[r].text)
       THEN /\ response' = [response EXCEPT
                   ![r] = handle_casual_query(question[r].text, FALSE)]
            /\ http_status' = [http_status EXCEPT ![r] = 200]
            /\ pc' = [pc EXCEPT ![r] = "done"]
       ELSE /\ pc' = [pc EXCEPT ![r] = "parser"]
            /\ UNCHANGED <<response, http_status>>
    /\ agent_results' = [agent_results EXCEPT ![r] = <<>>]
    /\ UNCHANGED <<variant, call, returned, question, results, entered, exchanges, raised_in>>

\* parser_agent is invoked and issues its completion request
ParserCall(r) ==
    /\ variant = "run"
    /\ pc[r] = "parser"
    /\ entered' = [entered EXCEPT ![r] = Append(@, "parser")]
    /\ pc' = [pc EXCEPT ![r] = "parser_wait"]
    /\ UNCHANGED <<variant, call, returned, question, results, agent_results, response,
                   http_status, exchanges, raised_in>>

\* faulty variant of ParserReturn: agent_results is one list shared by the
\* handlers, so the parser's entry shows in the list of every request
ParserReturn_shared(r) ==
    /\ pc[r] = "parser_wait"
    /\ \E exchange \in Offered(ParserExchanges) :
          \E out \in {parser_agent(question[r].text, exchange)} :
              /\ exchanges' = [exchanges EXCEPT ![r] = Append(@, Note("parser", exchange))]
              /\ raised_in' = [raised_in EXCEPT ![r] =
                     IF parser_agent_try(question[r].text, exchange).raised
                     THEN @ \cup {"parser"} ELSE @]
              /\ IF out.raised
                 THEN /\ Abort(r)
                      /\ UNCHANGED <<parser_result, agent_results>>
                 ELSE /\ parser_result' = [parser_result EXCEPT ![r] = out.v]
                      /\ agent_results' = [r2 \in Requests |->
                             Append(agent_results[r2],
                                    AgentResult("parser", out.v.result))]
                      /\ pc' = [pc EXCEPT ![r] = "router"]
                      /\ UNCHANGED http_status
    /\ UNCHANGED <<variant, call, returned, question, router_result, solver_result, verifier_result,
                   explainer_result, solver_attempt, response, entered>>

\* the completion request of parser_agent ends; the agent returns
ParserReturn(r) ==
    /\ pc[r] = "parser_wait"
    /\ \E exchange \in Offered(ParserExchanges) :
          \E out \in {parser_agent(question[r].text, exchange)} :
              /\ exchanges' = [exchanges EXCEPT ![r] = Append(@, Note("parser", exchange))]
              /\ raised_in' = [raised_in EXCEPT ![r] =
                     IF parser_agent_try(question[r].text, exchange).raised
                     THEN @ \cup {"parser"} ELSE @]
              /\ IF out.raised
                 THEN /\ Abort(r)
                      /\ UNCHANGED <<parser_result, agent_results>>
                 ELSE /\ parser_result' = [parser_result EXCEPT ![r] = out.v]
                      /\ agent_results' = [agent_results EXCEPT
                             ![r] = Append(@, AgentResult("parser", out.v.result))]
                      /\ pc' = [pc EXCEPT ![r] = "router"]
                      /\ UNCHANGED http_status
    /\ UNCHANGED <<variant, call, returned, question, router_result, solver_result, verifier_result,
                   explainer_result, solver_attempt, response, entered>>

\* faulty variant of RouterStep: the router's entry replaces the list instead of
\* being appended to it
RouterStep_replacing(r) ==
    /\ variant = "run"
    /\ pc[r] = "router"
    /\ entered' = [entered EXCEPT ![r] = Append(@, "router")]
    /\ \E out \in {router_agent(parser_result[r].data)} :
           IF out.raised
           THEN /\ Abort(r)
                /\ UNCHANGED <<router_result, agent_results>>
           ELSE /\ router_result' = [router_result EXCEPT ![r] = out.v]
                /\ agent_results' = [agent_results EXCEPT
                       ![r] = <<AgentResult("router", out.v.result)>>]
                /\ pc' = [pc EXCEPT ![r] = "solver"]
                /\ UNCHANGED http_status
    /\ UNCHANGED <<variant, call, returned, question, parser_result, solver_result,
                   verifier_result, explainer_result, solver_attempt, response,
                   exchanges, raised_in>>

\* router_agent runs (no completion request)
RouterStep(r) ==
    /\ variant = "run"
    /\ pc[r] = "router"
    /\ entered' = [entered EXCEPT ![r] = Append(@, "router")]
    /\ \E out \in {router_agent(parser_result[r].data)} :
           IF out.raised
           THEN /\ Abort(r)
                /\ UNCHANGED <<router_result, agent_results>>
           ELSE /\ router_result' = [router_result EXCEPT ![r] = out.v]
                /\ agent_results' = [agent_results EXCEPT
                       ![r] = Append(@, AgentResult("router", out.v.result))]
                /\ pc' = [pc EXCEPT ![r] = "solver"]
                /\ UNCHANGED http_status
    /\ UNCHANGED <<variant, call, returned, question, parser_result, solver_result, verifier_result,
                   explainer_result, solver_attempt, response, exchanges, raised_in>>

\* solver_agent is invoked and issues its completion request
SolverCall(r) ==
    /\ variant = "run"
    /\ pc[r] = "solver"
    /\ entered' = [entered EXCEPT ![r] = Append(@, "solver")]
    /\ pc' = [pc EXCEPT ![r] = "solver_wait"]
    /\ UNCHANGED <<variant, call, returned, question, results, agent_results, response,
                   http_status, exchanges, raised_in>>

\* the completion request of solver_agent ends; the agent returns
SolverReturn(r) ==
    /\ pc[r] = "solver_wait"
    /\ \E exchange \in Offered(SolverExchanges) :
          \E out \in {solver_agent(question[r].text, exchange)} :
              /\ exchanges' = [exchanges EXCEPT ![r] = Append(@, SolverNote(exchange))]
              /\ raised_in' = [raised_in EXCEPT ![r] =
                     IF solver_agent_try(question[r].text, exchange).raised
                     THEN @ \cup {"solver"} ELSE @]
              /\ IF out.raised
                 THEN /\ Abort(r)
                      /\ UNCHANGED <<solver_result, agent_results>>
                 ELSE /\ solver_result' = [solver_result EXCEPT ![r] = out.v]
                      /\ agent_results' = [agent_results EXCEPT
                             ![r] = Append(@, AgentResult("solver", out.v.result))]
                      /\ pc' = [pc EXCEPT ![r] = "verifier"]
                      /\ UNCHANGED http_status
    /\ UNCHANGED <<variant, call, returned, question, parser_result, router_result, verifier_result,
                   explainer_result, solver_attempt, response, entered>>

\* verifier_agent is invoked and issues its completion request
VerifierCall(r) ==
    /\ variant = "run"
    /\ pc[r] = "verifier"
    /\ entered' = [entered EXCEPT ![r] = Append(@, "verifier")]
    /\ pc' = [pc EXCEPT ![r] = "verifier_wait"]
    /\ UNCHANGED <<variant, call, returned, question, results, agent_results, response,
                   http_status, exchanges, raised_in>>

\* faulty variant of VerifierReturn: a solution the verifier rejects is sent
\* back to the solver
VerifierReturn_resolve(r) ==
    /\ pc[r] = "verifier_wait"
    /\ \E exchange \in Offered(VerifierExchanges) :
          \E out \in {verifier_agent(exchange)} :
              /\ exchanges' = [exchanges EXCEPT ![r] = Append(@, Note("verifier", exchange))]
              /\ raised_in' = [raised_in EXCEPT ![r] =
                     IF verifier_agent_try(exchange).raised
                     THEN @ \cup {"verifier"} ELSE @]
              /\ verifier_result' = [verifier_result EXCEPT ![r] = out.v]
              /\ agent_results' = [agent_results EXCEPT
                     ![r] = Append(@, AgentResult("verifier", out.v.result))]
              /\ pc' = [pc EXCEPT ![r] =
                     IF Truthy(Get(out.v.data, "is_correct", Bool(TRUE)))
                     THEN "explainer" ELSE "solver"]
              /\ UNCHANGED http_status
    /\ UNCHANGED <<variant, call, returned, question, parser_result, router_result, solver_result,
                   explainer_result, solver_attempt, response, entered>>

\* the completion request of verifier_agent ends; the agent returns
VerifierReturn(r) ==
    /\ pc[r] = "verifier_wait"
    /\ \E exchange \in Offered(VerifierExchanges) :
          \E out \in {verifier_agent(exchange)} :
              /\ exchanges' = [exchanges EXCEPT ![r] = Append(@, Note("verifier", exchange))]
              /\ raised_in' = [raised_in EXCEPT ![r] =
                     IF verifier_agent_try(exchange).raised
                     THEN @ \cup {"verifier"} ELSE @]
              /\ IF out.raised
                 THEN /\ Abort(r)
                      /\ UNCHANGED <<verifier_result, agent_results>>
                 ELSE /\ verifier_result' = [verifier_result EXCEPT ![r] = out.v]
                      /\ agent_results' = [agent_results EXCEPT
                             ![r] = Append(@, AgentResult("verifier", out.v.result))]
                      /\ pc' = [pc EXCEPT ![r] = "explainer"]
                      /\ UNCHANGED http_status
    /\ UNCHANGED <<variant, call, returned, question, parser_result, router_result, solver_result,
                   explainer_result, solver_attempt, response, entered>>

\* faulty variant of ExplainerStep: the explainer takes the last step off the
\* solution it was handed, which is the solver's own dictionary
ExplainerStep_trimming(r) ==
    /\ variant = "run"
    /\ pc[r] = "explainer"
    /\ entered' = [entered EXCEPT ![r] = Append(@, "explainer")]
    /\ \E out \in {explainer_agent(solver_result[r].data)} :
           IF out.raised
           THEN /\ Abort(r)
                /\ UNCHANGED <<explainer_result, agent_results>>
           ELSE /\ explainer_result' = [explainer_result EXCEPT ![r] = out.v]
                /\ agent_results' = [agent_results EXCEPT
                       ![r] = Append(@, AgentResult("explainer", out.v.result))]
                /\ pc' = [pc EXCEPT ![r] = "assemble"]
                /\ UNCHANGED http_status
    /\ solver_result' = [solver_result EXCEPT ![r].data =
           With(Get(@, "solution_steps", List(<<>>)), LAMBDA steps :
               IF IsList(steps) /\ steps.e # <<>>
               THEN DictSet(@, "solution_steps",
                            List(SubSeq(steps.e, 1, Len(steps.e) - 1)))
               ELSE @)]
    /\ UNCHANGED <<variant, call, returned, question, parser_result, router_result,
                   verifier_result, solver_attempt, response, exchanges, raised_in>>

\* explainer_agent runs (no completion request)
ExplainerStep(r) ==
    /\ variant = "run"
    /\ pc[r] = "explainer"
    /\ entered' = [entered EXCEPT ![r] = Append(@, "explainer")]
    /\ \E out \in {explainer_agent(solver_result[r].data)} :
           IF out.raised
           THEN /\ Abort(r)
                /\ UNCHANGED <<explainer_result, agent_results>>
           ELSE /\ explainer_result' = [explainer_result EXCEPT ![r] = out.v]
                /\ agent_results' = [agent_results EXCEPT
                       ![r] = Append(@, AgentResult("explainer", out.v.result))]
                /\ pc' = [pc EXCEPT ![r] = "assemble"]
                /\ UNCHANGED http_status
    /\ UNCHANGED <<variant, call, returned, question, parser_result, router_result, solver_result,
                   verifier_result, solver_attempt, response, exchanges, raised_in>>

\* the response is built and returned, under either pydantic major version
Assemble(r) ==
    /\ variant = "run"
    /\ pc[r] = "assemble"
    /\ \E major \in {1, 2} :
          \E out \in {BuildResponse(question[r], solver_result[r].data,
                                     verifier_result[r].data, agent_results[r], major)} :
              IF out.raised
              THEN /\ Abort(r)
                   /\ UNCHANGED response
              ELSE /\ response' = [response EXCEPT ![r] = out.v]
                   /\ http_status' = [http_status EXCEPT ![r] = 200]
                   /\ pc' = [pc EXCEPT ![r] = "done"]
    /\ UNCHANGED <<variant, call, returned, question, results, agent_results, entered, exchanges,
                   raised_in>>

(***************************************************************************)
(* main.py: the casual short-circuit of solve_math_problem and the agents. *)
(* The rest of main.py's solve_math_problem is not part of the sources;    *)
(* its agents run in the order their arguments force (parsed data, then    *)
(* strategy, then solution), and the model stops after the verifier.       *)
(***************************************************************************)
\* main.py solve_math_problem, up to the first agent
MainSolveStart(r) ==
    /\ variant = "main"
    /\ pc[r] = "received"
    /\ IF ~main_is_math_question(question[r].text)
       THEN /\ response' = [response EXCEPT
                   ![r] = handle_casual_query(question[r].text, TRUE)]
            /\ http_status' = [http_status EXCEPT ![r] = 200]
            /\ pc' = [pc EXCEPT ![r] = "done"]
       ELSE /\ pc' = [pc EXCEPT ![r] = "parser"]
            /\ UNCHANGED <<response, http_status>>
    /\ agent_results' = [agent_results EXCEPT ![r] = <<>>]
    /\ UNCHANGED <<variant, call, returned, question, results, entered, exchanges, raised_in>>

\* main.py parser_agent runs (no completion request)
MainParserStep(r) ==
    /\ variant = "main"
    /\ pc[r] = "parser"
    /\ entered' = [entered EXCEPT ![r] = Append(@, "parser")]
    /\ parser_result' = [parser_result EXCEPT
           ![r] = main_parser_agent(question[r].text).v]
    /\ pc' = [pc EXCEPT ![r] = "router"]
    /\ UNCHANGED <<variant, call, returned, question, router_result, solver_result, verifier_result,
                   explainer_result, solver_attempt, agent_results, response,
                   http_status, exchanges, raised_in>>

\* main.py router_agent runs (no completion request)
MainRouterStep(r) ==
    /\ variant = "main"
    /\ pc[r] = "router"
    /\ entered' = [entered EXCEPT ![r] = Append(@, "router")]
    /\ \E out \in {main_router_agent(parser_result[r].data)} :
           IF out.raised
           THEN /\ Abort(r)
                /\ UNCHANGED router_result
           ELSE /\ router_result' = [router_result EXCEPT ![r] = out.v]
                /\ pc' = [pc EXCEPT ![r] = "solver"]
                /\ UNCHANGED http_status
    /\ UNCHANGED <<variant, call, returned, question, parser_result, solver_result, verifier_result,
                   explainer_result, solver_attempt, agent_results, response,
                   exchanges, raised_in>>

\* main.py solver_agent is invoked and issues its first completion request
MainSolverCall(r) ==
    /\ variant = "main"
    /\ pc[r] = "solver"
    /\ entered' = [entered EXCEPT ![r] = Append(@, "solver")]
    /\ pc' = [pc EXCEPT ![r] = "main_solver_wait"]
    /\ UNCHANGED <<variant, call, returned, question, results, agent_results, response,
                   http_status, exchanges, raised_in>>

\* solver_agent returns what main_solver_finish makes of the attempt
MainSolverFinish(r, attempt) ==
    \E out \in {main_solver_finish(attempt, question[r].text,
                  Get(parser_result[r].data, "problem_type",
                      Str("mathematical problem")).s)} :
        /\ raised_in' = [raised_in EXCEPT ![r] =
               IF attempt.raised \/ out.v.result = Summary("Generated basic solution", Null)
               THEN @ \cup {"solver"} ELSE @]
        /\ solver_result' = [solver_result EXCEPT ![r] = out.v]
        /\ solver_attempt' = [solver_attempt EXCEPT ![r] = NoResult]
        /\ pc' = [pc EXCEPT ![r] = "verifier"]

\* the first completion request of main.py solver_agent ends: the agent returns,
\* or issues its second, looser completion request
MainSolverFirstReturn(r) ==
    /\ pc[r] = "main_solver_wait"
    /\ \E exchange \in Offered(MainSolverExchanges) :
          \E first \in {main_solver_first(exchange)} :
              /\ exchanges' = [exchanges EXCEPT ![r] = Append(@, SolverNote(exchange))]
              /\ IF ~first.raised /\ first.v.retry
                 THEN /\ solver_attempt' = [solver_attempt EXCEPT ![r] = first.v]
                      /\ pc' = [pc EXCEPT ![r] = "main_solver_wait2"]
                      /\ UNCHANGED <<solver_result, raised_in>>
                 ELSE MainSolverFinish(r, IF first.raised THEN first
                                          ELSE Return(first.v.solution))
    /\ UNCHANGED <<variant, call, returned, question, parser_result, router_result, verifier_result,
                   explainer_result, agent_results, response, http_status, entered>>

\* faulty variant of MainSolverSecondReturn: a second completion request that
\* failed is issued once more
MainSolverSecondReturn_again(r) ==
    /\ pc[r] = "main_solver_wait2"
    /\ \E exchange \in Offered(MainSolverDirectExchanges) :
          /\ exchanges' = [exchanges EXCEPT ![r] = Append(@, SolverNote(exchange))]
          /\ IF exchange.status # 200 /\ Len(exchanges[r]) < 3
             THEN UNCHANGED <<pc, solver_result, solver_attempt, raised_in>>
             ELSE MainSolverFinish(r, main_solver_second(exchange))
    /\ UNCHANGED <<variant, call, returned, question, parser_result, router_result,
                   verifier_result, explainer_result, agent_results, response,
                   http_status, entered>>

\* the second completion request of main.py solver_agent ends; the agent returns
MainSolverSecondReturn(r) ==
    /\ pc[r] = "main_solver_wait2"
    /\ \E exchange \in Offered(MainSolverDirectExchanges) :
          /\ exchanges' = [exchanges EXCEPT ![r] = Append(@, SolverNote(exchange))]
          /\ MainSolverFinish(r, main_solver_second(exchange))
    /\ UNCHANGED <<variant, call, returned, question, parser_result, router_result, verifier_result,
                   explainer_result, agent_results, response, http_status, entered>>

\* main.py verifier_agent runs (no completion request)
MainVerifierStep(r) ==
    /\ variant = "main"
    /\ pc[r] = "verifier"
    /\ entered' = [entered EXCEPT ![r] = Append(@, "verifier")]
    /\ verifier_result' = [verifier_result EXCEPT
           ![r] = main_verifier_agent(solver_result[r].data).v]
    /\ pc' = [pc EXCEPT ![r] = "main_verified"]
    /\ UNCHANGED <<variant, call, returned, question, parser_result, router_result, solver_result,
                   explainer_result, solver_attempt, agent_results, response,
                   http_status, exchanges, raised_in>>

(***************************************************************************)
(* Specification: one request handled by either deployment.                *)
(***************************************************************************)
Init ==
    /\ InitRequests({1})
    /\ call = NoCall
    /\ returned = NoResult

Next ==
    \E r \in Requests :
        \/ SolveStart(r)
        \/ ParserCall(r)
        \/ ParserReturn(r)
        \/ RouterStep(r)
        \/ SolverCall(r)
        \/ SolverReturn(r)
        \/ VerifierCall(r)
        \/ VerifierReturn(r)
        \/ ExplainerStep(r)
        \/ Assemble(r)
        \/ MainSolveStart(r)
        \/ MainParserStep(r)
        \/ MainRouterStep(r)
        \/ MainSolverCall(r)
        \/ MainSolverFirstReturn(r)
        \/ MainSolverSecondReturn(r)
        \/ MainVerifierStep(r)

Spec == Init /\ [][Next]_vars


(***************************************************************************)
(* Specification: two requests handled at once by one deployment.  The     *)
(* event loop runs one handler at a time and switches handlers only where  *)
(* a handler awaits call_llm, so the steps of the two interleave freely.   *)
(***************************************************************************)
\* the questions of two requests handled at once
ConcurrentQuestions ==
    {q \in Questions :
        /\ q.text \in {"hello", "2+2"}
        /\ q.confidence \in {74, 100}
        /\ ~q.requiresHITL}

ConcurrentInit ==
    /\ InitRequests(Requests)
    /\ \A r \in Requests : question[r] \in ConcurrentQuestions
    /\ call = NoCall
    /\ returned = NoResult

ConcurrentSpec == ConcurrentInit /\ [][Next]_vars

(***************************************************************************)
(* The classifier and the extractor called on their own, on texts of the   *)
(* kinds a caller or the completion endpoint can send.  In these texts ":" *)
(* stands for the division sign.                                           *)
(***************************************************************************)
\* texts offered to is_math_question: every veto phrase as it stands, and others
ClassifierTexts ==
    greetings \cup casual_queries
        \cup {"Hi ", " HELLO", "cats", "2+2", "integrate x^2", "what is sin(30)",
              "Solve x^2 - 5x + 6 = 0", "hi, what is 2+2", "help me solve x = 2",
              "history of the equation", "probability of two heads",
              "factor the polynomial", "x < y", "6 : 3", "3 # 4", "@x", "50%",
              "I have 2 cats"}

\* well-formed JSON objects of nesting depth 1, 2 and 3
JsonObjects ==
    {"{\"a\": 1}", "{\"a\": {\"b\": 2}}", "{\"a\": {\"b\": {\"c\": 1}}}"}

\* what a completion puts around the object it returns: nothing, prose, a
\* labeled fence, an unlabeled fence, prose around a fence, prose with braces
Wrappings ==
    {<<"", "">>,
     <<"The answer is ", " as shown.">>,
     <<"~~~json\n", "\n~~~">>,
     <<"~~~\n", "\n~~~">>,
     <<"Here it is:\n~~~json\n", "\n~~~\nDone.">>,
     <<"Let S = {1, 2}. Then ", "">>}

\* texts with no JSON object in them, and JSON values that are not objects
NoiseTexts ==
    {"The solution is correct.", "", "{", "} {", "{\"a\": }", "[1, 2]", "42",
     "\"text\"", "null", "~~~json\n[1]\n~~~"}

\* what the completion request of parser_agent can end with: the exchanges
\* of the handler's runs, an object without problem_type, an empty object
ParserCallExchanges ==
    ParserExchanges \cup {Ok("{\"concepts\": [\"algebra\"]}"), Ok("{}")}

\* the calls made: the function, its text, and the object embedded in the text
\* or the exchange the call ends with
Calls ==
    {[fn |-> "is_math_question", text |-> t, embedded |-> ""] : t \in ClassifierTexts}
        \cup {[fn |-> "extract_json_from_text", text |-> w[1] \o o \o w[2],
               embedded |-> o] : w \in Wrappings, o \in JsonObjects}
        \cup {[fn |-> "extract_json_from_text", text |-> t, embedded |-> ""] :
                  t \in NoiseTexts}
        \cup {[fn |-> "parser_agent", text |-> t, exchange |-> x] :
                  t \in {"2+2", "Solve x^2 - 5x + 6 = 0"}, x \in ParserCallExchanges}

\* the handler variables, which a call of a function on its own leaves alone
handler == <<pc, question, results, agent_results, response, http_status,
             entered, exchanges, raised_in>>

\* run.py is_math_question is called and returns
IsMathQuestionCall ==
    /\ variant = "run"
    /\ call.fn = "is_math_question"
    /\ returned = NoResult
    /\ returned' = Bool(is_math_question(call.text))
    /\ UNCHANGED <<variant, call, handler>>

\* main.py is_math_question is called and returns
MainIsMathQuestionCall ==
    /\ variant = "main"
    /\ call.fn = "is_math_question"
    /\ returned = NoResult
    /\ returned' = Bool(main_is_math_question(call.text))
    /\ UNCHANGED <<variant, call, handler>>

\* run.py extract_json_from_text is called and returns
ExtractJsonCall ==
    /\ variant = "run"
    /\ call.fn = "extract_json_from_text"
    /\ returned = NoResult
    /\ returned' = extract_json_from_text(call.text)
    /\ UNCHANGED <<variant, call, handler>>

\* main.py extract_json_from_text is called and returns
MainExtractJsonCall ==
    /\ variant = "main"
    /\ call.fn = "extract_json_from_text"
    /\ returned = NoResult
    /\ returned' = main_extract_json_from_text(call.text)
    /\ UNCHANGED <<variant, call, handler>>

\* run.py parser_agent is called and returns
ParserAgentCall ==
    /\ variant = "run"
    /\ call.fn = "parser_agent"
    /\ returned = NoResult
    /\ returned' = parser_agent(call.text, call.exchange)
    /\ UNCHANGED <<variant, call, handler>>

\* main.py parser_agent is called and returns (it makes no completion request)
MainParserAgentCall ==
    /\ variant = "main"
    /\ call.fn = "parser_agent"
    /\ returned = NoResult
    /\ returned' = main_parser_agent(call.text)
    /\ UNCHANGED <<variant, call, handler>>

UnitInit ==
    /\ InitRequests({})
    /\ call \in Calls
    /\ returned = NoResult

UnitNext ==
    \/ IsMathQuestionCall
    \/ MainIsMathQuestionCall
    \/ ExtractJsonCall
    \/ MainExtractJsonCall
    \/ ParserAgentCall
    \/ MainParserAgentCall

UnitSpec == UnitInit /\ [][UnitNext]_vars

(***************************************************************************)
(* Properties of the request handler.                                      *)
(***************************************************************************)
\* the verdict of the deployed classifier on the text of request r
ClassifiedMath(r) ==
    IF variant = "run" THEN is_math_question(question[r].text)
    ELSE main_is_math_question(question[r].text)

\* the agents in the order the handler calls them
PipelineOrder == <<"parser", "router", "solver", "verifier", "explainer">>

\* what the agent of a stage returned to the handler of request r
StageResult(r, stage) ==
    CASE stage = "parser" -> parser_result[r]
      [] stage = "router" -> router_result[r]
      [] stage = "solver" -> solver_result[r]
      [] stage = "verifier" -> verifier_result[r]
      [] OTHER -> explainer_result[r]

\* the agent invoked last for request r ("" before the first)
LastEntered(r) == IF entered[r] = <<>> THEN "" ELSE entered[r][Len(entered[r])]

\* the handler of request r answered on the math path
AnsweredMath(r) == pc[r] = "done" /\ entered[r] # <<>>

\* every completion request made for request r failed
AllFailed(r) ==
    exchanges[r] # <<>> /\ \A i \in 1..Len(exchanges[r]) : exchanges[r][i].failed

\* C1: a request whose text the classifier finds casual short-circuits: no
\* agent is ever invoked for it, no completion request is issued, and its
\* response has agentTrace = ["conversational_handler"], verification.status
\* = "casual_response" and hitlApplied = false, whatever its confidence.
C1_CasualShortCircuit ==
    \A r \in Arrived :
        ~ClassifiedMath(r) =>
            /\ entered[r] = <<>>
            /\ exchanges[r] = <<>>
            /\ \A stage \in Stages : StageResult(r, stage) = NoResult
            /\ pc[r] \in {"received", "done"}
            /\ pc[r] = "done" =>
                   /\ http_status[r] = 200
                   /\ response[r].agentTrace = <<"conversational_handler">>
                   /\ response[r].verification.status = "casual_response"
                   /\ response[r].hitlApplied = FALSE

\* a greeting sent with a confidence below the threshold has been answered
C1_Witness ==
    \E r \in Arrived :
        /\ variant = "run"
        /\ pc[r] = "done"
        /\ question[r].text = "hello"
        /\ question[r].confidence < HitlThreshold
        /\ question[r].requiresHITL

\* how far the handler of a request has got
Rank(p) ==
    CASE p \in {"absent", "received"} -> 0
      [] p = "parser" -> 1
      [] p = "parser_wait" -> 2
      [] p = "router" -> 3
      [] p = "solver" -> 4
      [] p \in {"solver_wait", "main_solver_wait"} -> 5
      [] p = "main_solver_wait2" -> 6
      [] p = "verifier" -> 7
      [] p = "verifier_wait" -> 8
      [] p = "explainer" -> 9
      [] p = "assemble" -> 10
      [] OTHER -> 11

\* one step of request r keeps the order of the stages
ForwardStep(r) ==
    /\ Rank(pc'[r]) >= Rank(pc[r])
    /\ pc[r] \in {"done", "error", "main_verified"} => pc'[r] = pc[r]
    /\ \/ entered'[r] = entered[r]
       \/ /\ Len(entered[r]) < Len(PipelineOrder)
          /\ entered'[r] = Append(entered[r], PipelineOrder[Len(entered[r]) + 1])
          /\ entered[r] # <<>> => StageResult(r, LastEntered(r)) # NoResult
    /\ pc'[r] = "assemble" => entered'[r] = PipelineOrder
    /\ (pc'[r] = "done" /\ pc[r] # "done") =>
           \/ pc[r] = "received" /\ ~ClassifiedMath(r)
           \/ pc[r] = "assemble" /\ explainer_result[r] # NoResult

\* C2: the stages of a math request run in the order parser, router, solver,
\* verifier, explainer, then assembly: a stage starts only after the one
\* before it returned, each stage is entered at most once, and no step leads
\* back to an earlier stage, also after a failed or malformed completion.
C2_StageOrder == [][\A r \in Requests : ForwardStep(r)]_vars

\* a request went through all stages although the parser's completion request
\* failed and the verifier's returned no JSON object
C2_Witness ==
    \E r \in Arrived :
        /\ AnsweredMath(r)
        /\ entered[r] = PipelineOrder
        /\ exchanges[r][1].failed
        /\ "verifier" \in raised_in[r]
        /\ ~exchanges[r][3].failed

\* the fallback data of a stage of request r
StageFallback(r, stage) ==
    CASE stage = "parser" -> DefaultParsed(question[r].text)
      [] stage = "solver" /\ variant = "run" -> SolverFallback(question[r].text)
      [] stage = "solver" /\ variant = "main" ->
            create_fallback_solution(question[r].text,
                Lookup(parser_result[r].data, "problem_type").s)
      [] OTHER -> DefaultVerification

\* the response that carries the solver's static fallback solution
CarriesSolverFallback(r) ==
    /\ response[r].finalAnswer.latex = "\\text{Solution computation in progress}"
    /\ Len(response[r].steps) = 2
    /\ response[r].steps[1] =
           Step(1, "Problem analysis",
                "\\text{Analyzing: } " \o Prefix(question[r].text, 50))
    /\ response[r].steps[2] =
           Step(2, "Solution approach", "\\text{Applying mathematical techniques}")

\* C3: a failure of a completion request inside a stage becomes that stage's
\* fallback and never ends the request; when every completion request of a
\* math request fails, run.py still answers with a SolutionResponse that
\* carries the solver's static fallback solution and confidence 0.85.
C3_UpstreamFailureFallsBack ==
    \A r \in Arrived :
        /\ \A i \in 1..Len(exchanges[r]) :
               exchanges[r][i].failed =>
                   /\ StageResult(r, exchanges[r][i].stage) # NoResult
                   /\ StageResult(r, exchanges[r][i].stage).data
                          = StageFallback(r, exchanges[r][i].stage)
        /\ AllFailed(r) => pc[r] # "error"
        /\ (variant = "run" /\ AllFailed(r) /\ pc[r] = "done") =>
               /\ http_status[r] = 200
               /\ CarriesSolverFallback(r)
               /\ response[r].finalAnswer.confidence = Float(85)
               /\ response[r].verification.status = "verified"

\* run.py answered a request all three of whose completion requests failed
C3_Witness ==
    \E r \in Arrived :
        /\ variant = "run"
        /\ pc[r] = "done"
        /\ Len(exchanges[r]) = 3
        /\ AllFailed(r)
        /\ Len(question[r].text) > 50

\* C4: the solution solver_agent returns has a non-empty final answer
\* (final_answer_latex) and a step list (solution_steps) with at least one
\* step, for every outcome of its completion requests.
C4_SolverOutputNonEmpty ==
    \A r \in Arrived :
        solver_result[r] # NoResult =>
            /\ Truthy(Get(solver_result[r].data, "final_answer_latex", Null))
            /\ IsList(Get(solver_result[r].data, "solution_steps", Null))
            /\ Len(Get(solver_result[r].data, "solution_steps", List(<<>>)).e) >= 1

\* C5: solver_agent never passes an error on to its caller: whatever its
\* completion requests do, it returns a dictionary with a "result" summary and
\* a "data" solution, and when an exception occurred inside it the data is its
\* fixed placeholder solution (built from the problem type and the truncated
\* question text).
C5_SolverNeverRaises ==
    \A r \in Arrived :
        /\ pc[r] = "error" => LastEntered(r) # "solver"
        /\ Rank(pc[r]) >= Rank("verifier") /\ pc[r] # "done" /\ pc[r] # "error"
               => solver_result[r] # NoResult
        /\ solver_result[r] # NoResult =>
               /\ DOMAIN solver_result[r] = {"result", "data"}
               /\ IsDict(solver_result[r].data)
               /\ HasKey(solver_result[r].data, "final_answer_latex")
               /\ HasKey(solver_result[r].data, "solution_steps")
               /\ "solver" \in raised_in[r] =>
                      solver_result[r].data = StageFallback(r, "solver")

\* solver_agent returned its placeholder after a completion that arrived but
\* made its try block raise
C5_Witness ==
    \E r \in Arrived :
        /\ "solver" \in raised_in[r]
        /\ solver_result[r] # NoResult
        /\ \E i \in 1..Len(exchanges[r]) :
               exchanges[r][i].stage = "solver" /\ ~exchanges[r][i].failed

\* the problem types the strategy map of the deployed file lists
KnownProblemTypes ==
    IF variant = "run"
    THEN {"trigonometry", "integration", "differentiation", "algebra"}
    ELSE {"trigonometry", "integration", "differentiation", "algebra", "geometry"}

\* C6: the router's lookup is total: for every parsed problem parser_agent can
\* return, router_agent returns without an error a strategy with a non-empty
\* name and a non-empty list of key steps, and an unrecognized problem type
\* gets the default entry.
C6_RouterTotal ==
    \A r \in Arrived :
        /\ pc[r] = "error" => LastEntered(r) # "router"
        /\ router_result[r] # NoResult =>
               /\ Truthy(Get(router_result[r].data, "strategy", Null))
               /\ Truthy(Get(router_result[r].data, "key_steps", Null))
               /\ (\A known \in KnownProblemTypes :
                       Get(parser_result[r].data, "problem_type", Null) # Str(known))
                      => Get(router_result[r].data, "strategy", Null)
                             = Str("Step-by-step analytical approach")

\* a confidence, in hundredths, that is a number in the closed range [0, 1]
InUnitRange(c) == c.t = "num" /\ c.n >= 0 /\ c.n <= 100

\* C7: the confidence of the verification verifier_agent returns is always a
\* number in [0, 1] (a missing or unparsable one counting as 0.85), whatever
\* the completion endpoint returned; the local heuristic of main.py gives one
\* of 0.85, 0.90, 0.95.
C7_VerifierConfidenceInRange ==
    \A r \in Arrived :
        verifier_result[r] # NoResult =>
            /\ InUnitRange(Get(verifier_result[r].data, "confidence", Float(85)))
            /\ variant = "main" =>
                   Get(verifier_result[r].data, "confidence", Null)
                       \in {Float(85), Float(90), Float(95)}

\* C8: finalAnswer.confidence of every assembled response is clamped: it never
\* exceeds 1.0, whatever confidence the verifier's result holds.
C8_ResponseConfidenceClamped ==
    \A r \in Arrived :
        AnsweredMath(r) =>
            /\ response[r].finalAnswer.confidence # FloatSpecial("inf")
            /\ response[r].finalAnswer.confidence.t = "num"
                   => response[r].finalAnswer.confidence.n <= 100

\* C9: in the response assembled for a math request hitlApplied is true
\* exactly when the caller's confidence is strictly below 0.75, whatever the
\* caller's requiresHITL flag and whatever the stages produced.
C9_HitlAppliedBelowThreshold ==
    \A r \in Arrived :
        AnsweredMath(r) =>
            response[r].hitlApplied = (question[r].confidence < 75)

\* a math request sent with confidence exactly 0.75 and requiresHITL set was
\* answered after a completion request failed
C9_Witness ==
    \E r \in Arrived :
        /\ AnsweredMath(r)
        /\ question[r].confidence = 75
        /\ question[r].requiresHITL
        /\ ~response[r].hitlApplied
        /\ raised_in[r] # {}

\* C10: in the response assembled for a math request verification.status is
\* "verified" when the verifier's is_correct is true and "needs_review"
\* otherwise; "casual_response" is the status of the casual path only.
C10_VerificationStatus ==
    \A r \in Arrived :
        pc[r] = "done" =>
            IF entered[r] = <<>>
            THEN response[r].verification.status = "casual_response"
            ELSE response[r].verification.status =
                     IF Get(verifier_result[r].data, "is_correct", Bool(TRUE)) = Bool(TRUE)
                     THEN "verified" ELSE "needs_review"

\* the steps solver_agent handed to the assembler of request r
SolverSteps(r) == Get(solver_result[r].data, "solution_steps", List(<<>>)).e

\* the placeholder the assembler puts at position i
PlaceholderStep(i) == Step(i, "Step " \o IntToStr(i), "...")

\* a solver step no pydantic version can turn into a Step: not an object, or
\* an object whose step_number is neither a number nor a numeric string
Unconvertible(st) ==
    \/ ~IsDict(st)
    \/ /\ HasKey(st, "step_number")
       /\ \/ Lookup(st, "step_number").t \in {"null", "list", "dict"}
          \/ /\ IsStr(Lookup(st, "step_number"))
             /\ StrToFloat(Lookup(st, "step_number").s).raised

\* C11: the steps of every response are non-empty: an empty solver step list
\* gives exactly the one generic step, and otherwise the response has one step
\* per solver step, a step that cannot be converted being replaced by the
\* placeholder at its position.
C11_StepsNeverEmpty ==
    \A r \in Arrived :
        pc[r] = "done" =>
            /\ Len(response[r].steps) >= 1
            /\ AnsweredMath(r) =>
                   IF SolverSteps(r) = <<>>
                   THEN response[r].steps =
                            <<Step(1, "Solution step", "\\text{Solution in progress}")>>
                   ELSE /\ Len(response[r].steps) = Len(SolverSteps(r))
                        /\ \A i \in 1..Len(SolverSteps(r)) :
                               Unconvertible(SolverSteps(r)[i])
                                   => response[r].steps[i] = PlaceholderStep(i)

\* a response was assembled from a solver step list none of whose two entries
\* is an object: both positions hold the placeholder
C11_Witness ==
    \E r \in Arrived :
        /\ AnsweredMath(r)
        /\ Len(SolverSteps(r)) = 2
        /\ ~IsDict(SolverSteps(r)[1])
        /\ ~IsDict(SolverSteps(r)[2])
        /\ response[r].steps = <<PlaceholderStep(1), PlaceholderStep(2)>>

\* C17: the response to a math request that ran the whole pipeline has at
\* least two steps and a non-empty finalAnswer.latex, whatever the completion
\* endpoint returned.
C17_FullPipelineMinimum ==
    \A r \in Arrived :
        AnsweredMath(r) =>
            /\ Len(response[r].steps) >= 2
            /\ response[r].finalAnswer.latex # ""

\* the number of completion requests a stage made for request r
Completions(r, stage) ==
    Cardinality({i \in 1..Len(exchanges[r]) : exchanges[r][i].stage = stage})

Names(entries) == [i \in 1..Len(entries) |-> entries[i].name]

\* agent_results of request r holds one entry for every agent that returned, in
\* the order the agents were invoked
OneEntryPerStage(r) ==
    \/ Names(agent_results[r]) = entered[r]
    \/ /\ entered[r] # <<>>
       /\ Names(agent_results[r]) = SubSeq(entered[r], 1, Len(entered[r]) - 1)
       /\ pc[r] \in {"parser_wait", "solver_wait", "verifier_wait", "error"}

\* a step leaves agent_results of request r as it is or appends one entry
AppendOnly(r) ==
    \/ agent_results'[r] = agent_results[r]
    \/ /\ Len(agent_results'[r]) = Len(agent_results[r]) + 1
       /\ SubSeq(agent_results'[r], 1, Len(agent_results[r])) = agent_results[r]

\* C19: agentResults of the response to a math request holds exactly one entry
\* per stage that ran, in the order parser, router, solver, verifier,
\* explainer; while the request is handled the list only grows at its end;
\* agentTrace lists the same names in the same order.
C19_AgentResultsAppendOnly ==
    /\ [](\A r \in Arrived :
              variant = "run" =>
                  /\ OneEntryPerStage(r)
                  /\ AnsweredMath(r) =>
                         /\ response[r].agentResults = agent_results[r]
                         /\ Names(response[r].agentResults) = PipelineOrder
                         /\ response[r].agentTrace = Names(response[r].agentResults))
    /\ [][\A r \in Requests : AppendOnly(r)]_vars

\* run.py answered a math request whose three completion requests all failed:
\* the five entries are there
C19_Witness ==
    \E r \in Arrived :
        /\ variant = "run"
        /\ AnsweredMath(r)
        /\ AllFailed(r)
        /\ Len(response[r].agentResults) = 5

\* what the handler of request r holds
Locals(r) ==
    <<pc[r], question[r], parser_result[r], router_result[r], solver_result[r],
      verifier_result[r], explainer_result[r], solver_attempt[r], agent_results[r],
      response[r], http_status[r], entered[r], exchanges[r], raised_in[r]>>

\* a step is a step of one handler: it leaves what the others hold alone
OneHandlerSteps ==
    \E r \in Requests : \A other \in Requests \ {r} : Locals(other)' = Locals(other)

\* a stage output request r gets in run.py is what the agent returns for the
\* request's own question and one completion
OwnStageOutputs(r) ==
    /\ parser_result'[r] # parser_result[r] =>
           \E x \in Offered(ParserExchanges) :
               parser_result'[r] = parser_agent(question[r].text, x).v
    /\ solver_result'[r] # solver_result[r] =>
           \E x \in Offered(SolverExchanges) :
               solver_result'[r] = solver_agent(question[r].text, x).v
    /\ verifier_result'[r] # verifier_result[r] =>
           \E x \in Offered(VerifierExchanges) :
               verifier_result'[r] = verifier_agent(x).v

\* the strategy and the trace of request r in run.py come from its own outputs
OwnTrace(r) ==
    /\ router_result[r] # NoResult =>
           router_result[r] = router_agent(parser_result[r].data).v
    /\ \A i \in 1..Len(agent_results[r]) :
           /\ i <= Len(PipelineOrder)
           /\ StageResult(r, PipelineOrder[i]) # NoResult
           /\ agent_results[r][i] =
                  AgentResult(PipelineOrder[i], StageResult(r, PipelineOrder[i]).result)

\* the response of request r is the one its own question and its own stage
\* outputs give
OwnResponse(r) ==
    IF entered[r] = <<>>
    THEN response[r] = handle_casual_query(question[r].text, variant = "main")
    ELSE \E major \in {1, 2} :
             response[r] = BuildResponse(question[r], solver_result[r].data,
                                         verifier_result[r].data, agent_results[r],
                                         major).v

\* C20: requests handled at once are isolated: however their steps interleave,
\* a step of one handler changes nothing another handler holds, every stage
\* output and trace entry of a request comes from its own question and its own
\* completions, and its response is the one it would get when handled alone.
C20_RequestsIsolated ==
    /\ [](\A r \in Arrived :
              /\ variant = "run" => OwnTrace(r)
              /\ pc[r] = "done" => OwnResponse(r))
    /\ [][/\ OneHandlerSteps
          /\ variant = "run" => \A r \in Arrived : OwnStageOutputs(r)]_vars

\* two requests with the same question were both answered by run.py, all
\* completion requests of the first failed and none of the second did, and
\* their responses differ
C20_Witness ==
    /\ variant = "run"
    /\ \A r \in Requests : AnsweredMath(r)
    /\ question[1] = question[2]
    /\ AllFailed(1)
    /\ \A i \in 1..Len(exchanges[2]) : ~exchanges[2][i].failed
    /\ response[1].steps # response[2].steps

\* the completion requests solver_agent made for request r, in order
SolverNotes(r) == SelectSeq(exchanges[r], LAMBDA note : note.stage = "solver")

\* the first completion request of the solver succeeded and gave a text
FirstArrived(r) ==
    /\ SolverNotes(r) # <<>>
    /\ ~SolverNotes(r)[1].failed
    /\ IsStr(SolverNotes(r)[1].content)

\* what the deployed extractor makes of the solver's first completion
FirstExtraction(r) ==
    IF variant = "main"
    THEN main_extract_json_from_text(SolverNotes(r)[1].content.s)
    ELSE extract_json_from_text(SolverNotes(r)[1].content.s)

\* the first extraction gave a mapping that has the final-answer field
FirstUsable(r) ==
    /\ FirstArrived(r)
    /\ IsDict(FirstExtraction(r))
    /\ HasKey(FirstExtraction(r),
              IF variant = "main" THEN "final_answer" ELSE "final_answer_latex")

\* C22: when the solver's first completion succeeded but extraction gave no
\* mapping with the final-answer field, solver_agent has made exactly one
\* second request by the time it returns, and builds its solution from the free
\* text of that second completion; it makes no second request when the first
\* extraction gave a mapping with the final-answer field; and a second request
\* is in flight only after the first has returned.
C22_SecondLooserRequest ==
    \A r \in Arrived :
        /\ (solver_result[r] # NoResult /\ FirstArrived(r) /\ ~FirstUsable(r))
               => /\ Len(SolverNotes(r)) = 2
                  /\ (~SolverNotes(r)[2].failed /\ IsStr(SolverNotes(r)[2].content))
                         => solver_result[r].data =
                                structure_solution(
                                    parse_mathematical_response(
                                        SolverNotes(r)[2].content.s),
                                    question[r].text).v
        /\ FirstUsable(r) => Len(SolverNotes(r)) = 1
        /\ pc[r] = "main_solver_wait2" => Len(SolverNotes(r)) = 1
        /\ pc[r] \in {"solver_wait", "main_solver_wait"} => SolverNotes(r) = <<>>


\* the final answer solver_agent returned for request r
SolverFinalAnswer(r) == Get(solver_result[r].data, "final_answer_latex", Null)

\* a solver step whose three fields every pydantic version takes as they are:
\* an integer step_number, a string description and a string latex_expression
WellTyped(st) ==
    /\ IsDict(st)
    /\ HasKey(st, "step_number") /\ HasKey(st, "description")
    /\ HasKey(st, "latex_expression")
    /\ Lookup(st, "step_number").t = "num" /\ Lookup(st, "step_number").isint
    /\ IsStr(Lookup(st, "description"))
    /\ IsStr(Lookup(st, "latex_expression"))

\* the response of request r carries the solver's steps, in their order and of
\* their number, and the solver's final answer
CarriesSolution(r) ==
    /\ SolverSteps(r) # <<>> =>
           /\ Len(response[r].steps) = Len(SolverSteps(r))
           /\ \A i \in 1..Len(SolverSteps(r)) :
                  WellTyped(SolverSteps(r)[i]) =>
                      response[r].steps[i] =
                          Step(Lookup(SolverSteps(r)[i], "step_number").n \div 100,
                               Lookup(SolverSteps(r)[i], "description").s,
                               Lookup(SolverSteps(r)[i], "latex_expression").s)
    /\ IsStr(SolverFinalAnswer(r)) =>
           response[r].finalAnswer.latex = SolverFinalAnswer(r).s

\* C23: the verifier and the explainer leave the solver's solution unchanged:
\* once solver_agent has returned, no later step of the handler changes what it
\* returned, and the response carries the solver's steps, in the same order
\* and of the same number when the list is non-empty, and the solver's final
\* answer as finalAnswer.latex.
C23_SolutionUnchanged ==
    /\ [](\A r \in Arrived : AnsweredMath(r) => CarriesSolution(r))
    /\ [][\A r \in Requests :
              solver_result[r] # NoResult => solver_result'[r] = solver_result[r]]_vars

\* a response was assembled from a solver solution of three well-typed steps,
\* after the verifier and the explainer ran, and carries these three steps
C23_Witness ==
    \E r \in Arrived :
        /\ AnsweredMath(r)
        /\ entered[r] = PipelineOrder
        /\ Len(SolverSteps(r)) = 3
        /\ \A i \in 1..3 : WellTyped(SolverSteps(r)[i])
        /\ Len(response[r].steps) = 3
        /\ response[r].finalAnswer.latex = "x = 2, 3"


(***************************************************************************)
(* Properties of the classifier and of the extractor.                      *)
(***************************************************************************)
\* the text of the call as the classifier normalizes it
Normalized == strip(lower(call.text))

\* the classifier was called and has returned
Classified == call.fn = "is_math_question" /\ returned # NoResult

\* the extractor was called and has returned
Extracted == call.fn = "extract_json_from_text" /\ returned # NoResult

\* the text of the call is, as a whole, a greeting or a casual phrase
WholeCasual == Normalized \in greetings \cup casual_queries

\* keywords and symbols the classifier's vocabulary is said to hold ("#" the
\* multiplication sign, ":" the division sign, "@" the root sign, "$" the
\* integral sign, "&" the summation sign)
NamedKeywords == {"solve", "integrate", "derivative", "factor", "probability"}

NamedSymbols == {"=", "+", "#", ":", "^", "@", "$", "&", "%", "<", ">"}

\* C12: a text that is not as a whole a greeting or casual phrase and holds a
\* mathematical keyword or a mathematical symbol is classified as math.
C12_MathSignalsClassifiedMath ==
    (/\ Classified
     /\ ~WholeCasual
     /\ \/ \E keyword \in NamedKeywords : str_contains(keyword, Normalized)
        \/ \E symbol \in NamedSymbols : str_contains(symbol, call.text))
        => returned = Bool(TRUE)

\* C13: the veto applies only to a text that as a whole is a greeting or a
\* casual phrase: for every other text, also one that begins with a greeting,
\* the classifier returns what its positive signals give.
C13_VetoOnlyWholeText ==
    (Classified /\ ~WholeCasual)
        => returned = Bool(IF variant = "run"
                           THEN positive_signals(call.text, Normalized)
                           ELSE main_positive_signals(call.text, Normalized))

\* the text of the call holds a digit
HoldsDigit == \E i \in 1..Len(call.text) : IsDigit(Char(call.text, i))

\* C21: a text that the veto loop lets through and that holds a digit is
\* classified as math, also when it holds no keyword, no symbol and no
\* arithmetic pattern.
C21_DigitClassifiedMath ==
    (Classified /\ ~IsCasualPhrase(Normalized) /\ HoldsDigit)
        => returned = Bool(TRUE)


\* C14: extract_json_from_text always returns a mapping, the empty one for a
\* text that holds no JSON object, and never a list, a number or a string.
C14_ExtractorReturnsMapping ==
    Extracted =>
        /\ IsDict(returned)
        /\ call.text \in NoiseTexts => returned = EmptyDict

\* C15: for a well-formed JSON object embedded in prose or in a fenced block
\* the extractor returns exactly that object, neither a sub-object of it nor
\* the empty mapping.
C15_ExtractorRoundTrip ==
    (Extracted /\ call.embedded # "")
        => returned = json_loads(call.embedded).v

\* parser_agent was called and has returned
Parsed == call.fn = "parser_agent" /\ returned # NoResult

\* the completion request of the call failed, or gave no text, or a text from
\* which no object with a problem_type is extracted
NoProblemType ==
    \/ call.exchange.status # 200
    \/ ~IsStr(call.exchange.content)
    \/ ~IsDict(extract_json_from_text(call.exchange.content.s))
    \/ ~HasKey(extract_json_from_text(call.exchange.content.s), "problem_type")

\* C16: parser_agent never fails: it always returns a parsed problem that has
\* a problem_type, and when its completion request fails or yields no object
\* with a problem_type the parsed problem is exactly the default one, with the
\* question text as normalized_question.
C16_ParserNeverFails ==
    Parsed =>
        /\ ~returned.raised
        /\ IsDict(returned.v.data)
        /\ HasKey(returned.v.data, "problem_type")
        /\ (variant = "run" /\ NoProblemType)
               => returned.v.data = DefaultParsed(call.text)

\* run.py parser_agent returned the default for a completion that was an object
\* without problem_type
C16_Witness ==
    /\ Parsed
    /\ variant = "run"
    /\ call.exchange = Ok("{\"concepts\": [\"algebra\"]}")
    /\ returned.v.data = DefaultParsed(call.text)

=============================================================================
